---- MODULE Spec2Model ----
(***************************************************************************)
(* A model of llmjson: the cross-document streaming scheduler              *)
(* (LLMProcessor.process_documents_streaming_optimized and batch_process), *)
(* the graph validator (DataValidator.validate_data) and the response      *)
(* recovery ladder (LLMProcessor._extract_json / process_chunk).           *)
(***************************************************************************)
EXTENDS Integers, Sequences, FiniteSets, TLC

(***************************************************************************)
(* Bounds of the model.                                                    *)
(***************************************************************************)
MaxDocs == 2
MaxChunks == 3
MaxBatch == 3
MaxStates == 2
MaxRels == 1
MaxBlocks == 1
MaxCandidates == 1
MaxWorkers == 2
MaxText == 5

VARIABLES
    doc_paths,       \* the input documents: per document, whether chunking succeeds and its chunk count
    batch_size,      \* the batch_size argument
    callback,        \* "none" | "ok" | "raises" (a callback that may raise on any call)
    chunk_gen,       \* position of chunk_generator: [d |-> document, k |-> next chunk index]
    chunk_buffer,    \* list of chunk_info items waiting for dispatch
    pending_docs,    \* insertion-ordered dict doc_path -> {chunk_results, is_complete}
    completed_docs,  \* documents yielded in the current emission round
    loop_i,          \* index of the running for-loop over pending_docs (emission round / handler)
    pc,              \* position of the generator
    last_yield,      \* the pair handed to the consumer by the latest yield
    yield_count,     \* per document, how many pairs were yielded for it
    yield_batch,     \* per document, the number of batches dispatched when it was first yielded
    recorded_batch,  \* per document, the batch in which the result of its last chunk was recorded
    batches,         \* number of batches dispatched so far
    last_batch,      \* the latest batch_process call: its items, what each call did, its results
    failed,          \* TRUE once the top-level except clause has caught an exception
    data,            \* the payload passed to the latest validate_data call, as the call left it
    data_before,     \* the same payload as it was when the call was made
    validated_data,  \* the corrected payload returned by the latest validate_data call
    validation_report, \* DataValidator.validation_report
    vpc,             \* "ready" | "returned" | "raised": how the latest validate_data call ended
    calls,           \* number of validate_data calls made
    api,             \* what _call_llm_api does in the process_chunk call: "ok" | "raise"
    response,        \* the response text _call_llm_api returns
    rpc,             \* "ready" | "returned" | "raised": how the process_chunk call ended
    chunk_result,    \* the pair (json_data, info) returned by process_chunk
    stats,           \* LLMProcessor.stats
    extracted,       \* what the _extract_json call did: attempts made, value returned or exception
    report_objs,     \* the report dicts made by reset_validation_report of the shared validator
    self_report,     \* which of them the attribute validation_report of the shared validator holds
    thr,             \* per thread calling validate_data on the shared validator: its locals
    corpus,          \* the chunk items chunk_generator has still to hand out
    config,          \* batch_size, max_workers and enable_parallel of the processor
    bp_items,        \* chunk_items, the list passed to the running batch_process call
    futures,         \* per submitted item: its future (state and value)
    bp_results,      \* results, the list the running batch_process call builds
    active,          \* the process_chunk calls executing now: (batch, position)
    batch_no,        \* number of batch_process calls made so far
    bpc,             \* position of the caller: "refill" | "serial" | "parallel" | "done"
    returned,        \* the latest finished batch_process call: its items, its list, the completion order
    text,            \* the text given to _find_json_candidates or _preprocess_for_repair
    found,           \* the list _find_json_candidates returned
    processed,       \* the text _preprocess_for_repair returned
    tpc,             \* "ready" | "scanned" | "preprocessed"
    max_retries,     \* self.max_retries
    retry_delay,     \* self.retry_delay
    stream_mode,     \* TRUE when the call takes the streaming branch
    attempt,         \* the loop variable of the retry loop of _call_llm_api
    service_calls,   \* outcome of every client.chat.completions.create call, in order
    sleeps,          \* the arguments of the time.sleep calls, in order
    last_exception,  \* "None" | "Exception" | "APIConnectionError"
    api_return,      \* the response text _call_llm_api returned
    qpc,             \* "loop" | "returned" | "raised": position of the _call_llm_api call
    shared_stats,    \* self.stats, the counters all worker threads update
    stats_before,    \* self.stats when the parallel batch_process call began
    n_items,         \* number of chunk items of the call
    pool_size,       \* max_workers of the ThreadPoolExecutor
    workers,         \* per chunk item: the thread running process_chunk on it
    spc              \* "running" | "returned": position of the batch_process call

schedVars == <<doc_paths, batch_size, callback, chunk_gen, chunk_buffer, pending_docs,
               completed_docs, loop_i, pc, last_yield, yield_count, yield_batch,
               recorded_batch, batches, last_batch, failed>>

valVars == <<data, data_before, validated_data, validation_report, vpc, calls>>

recVars == <<api, response, rpc, chunk_result, stats, extracted>>

concVars == <<report_objs, self_report, thr>>

batchVars == <<corpus, config, bp_items, futures, bp_results, active, batch_no, bpc,
               returned>>

textVars == <<text, found, processed, tpc>>

retryVars == <<max_retries, retry_delay, stream_mode, attempt, service_calls, sleeps,
               last_exception, api_return, qpc>>

statsVars == <<shared_stats, stats_before, n_items, pool_size, workers, spc>>

vars == <<schedVars, valVars, recVars, concVars, batchVars, textVars, retryVars, statsVars>>

\* What each component leaves alone.
notSchedVars == <<valVars, recVars, concVars, batchVars, textVars, retryVars, statsVars>>
notValVars == <<schedVars, recVars, concVars, batchVars, textVars, retryVars, statsVars>>
notRecVars == <<schedVars, valVars, concVars, batchVars, textVars, retryVars, statsVars>>
notConcVars == <<schedVars, valVars, recVars, batchVars, textVars, retryVars, statsVars>>
notBatchVars == <<schedVars, valVars, recVars, concVars, textVars, retryVars, statsVars>>
notTextVars == <<schedVars, valVars, recVars, concVars, batchVars, retryVars, statsVars>>
notRetryVars == <<schedVars, valVars, recVars, concVars, batchVars, textVars, statsVars>>
notStatsVars == <<schedVars, valVars, recVars, concVars, batchVars, textVars, retryVars>>

(***************************************************************************)
(* Helpers on sequences.                                                   *)
(***************************************************************************)
Range(s) == {s[i] : i \in DOMAIN s}

\* The element of a one-element set.  In {F(x) : x \in {e}} the value of e is
\* computed once and F is applied to that value.
Only(S) == CHOOSE x \in S : TRUE

SetMin(S) == CHOOSE x \in S : \A y \in S : x <= y

(***************************************************************************)
(* Per-chunk processing as batch_process sees it.                          *)
(***************************************************************************)
\* What the call of process_chunk does for one chunk: it returns a payload
\* ("ok") or raises LLMProcessingError ("raise").
ChunkOutcomes == {"ok", "raise"}

\* Mutant of ProcessChunkWithMetadata: the error_info of a failed chunk carries the
\* batch position in place of the chunk's own index.
MutProcessChunkWithMetadata(global_index, doc_name, chunk_index, outcome) ==
    IF outcome = "ok"
    THEN [data |-> "payload", success |-> TRUE, doc_name |-> doc_name,
          chunk_index |-> chunk_index, global_index |-> global_index]
    ELSE [data |-> "None", success |-> FALSE, doc_name |-> doc_name,
          chunk_index |-> global_index, global_index |-> global_index]

\* _process_chunk_with_metadata: the result of process_chunk tagged with the
\* item's doc_name, chunk_index and global_index; an exception of process_chunk
\* is caught and becomes (None, error_info) for that chunk.
ProcessChunkWithMetadata(global_index, doc_name, chunk_index, outcome) ==
    IF outcome = "ok"
    THEN [data |-> "payload", success |-> TRUE, doc_name |-> doc_name,
          chunk_index |-> chunk_index, global_index |-> global_index]
    ELSE [data |-> "None", success |-> FALSE, doc_name |-> doc_name,
          chunk_index |-> chunk_index, global_index |-> global_index]

\* batch_process: one result per submitted item, at the item's position.
BatchProcess(chunk_items, outcomes) ==
    [i \in 1..Len(chunk_items) |->
        ProcessChunkWithMetadata(i - 1, chunk_items[i].doc_path,
                                 chunk_items[i].chunk_index, outcomes[i])]

(***************************************************************************)
(* chunk_generator: the input cursor.                                      *)
(***************************************************************************)
ChunkGenItem(g) ==
    IF g.d > Len(doc_paths) THEN [kind |-> "stop", doc_path |-> 0, chunk_index |-> 0]
    ELSE IF ~doc_paths[g.d].chunking_ok
         THEN [kind |-> "doc_error", doc_path |-> g.d, chunk_index |-> 0]
    ELSE IF g.k < doc_paths[g.d].chunks
         THEN [kind |-> "chunk", doc_path |-> g.d, chunk_index |-> g.k]
    ELSE [kind |-> "doc_end", doc_path |-> g.d, chunk_index |-> 0]

ChunkGenAdvance(g) ==
    IF g.d > Len(doc_paths) THEN g
    ELSE IF doc_paths[g.d].chunking_ok /\ g.k < doc_paths[g.d].chunks
         THEN [d |-> g.d, k |-> g.k + 1]
    ELSE [d |-> g.d + 1, k |-> 0]

(***************************************************************************)
(* pending_docs: a dict kept in insertion order.                           *)
(***************************************************************************)
PendingKeys == {pending_docs[i].doc_path : i \in DOMAIN pending_docs}

PendingIndex(p, doc) == CHOOSE i \in DOMAIN p : p[i].doc_path = doc

NoResults == [i \in {} |-> 0]

StoreResult(chunk_results, chunk_index, result) ==
    [i \in (DOMAIN chunk_results) \cup {chunk_index} |->
        IF i = chunk_index THEN result ELSE chunk_results[i]]

SetMax(S) == CHOOSE x \in S : \A y \in S : x >= y

\* Mutant of SortedResults: the keys are taken in descending order.
RECURSIVE MutSortedResults(_)
MutSortedResults(chunk_results) ==
    IF DOMAIN chunk_results = {} THEN <<>>
    ELSE LET k == SetMax(DOMAIN chunk_results)
         IN <<chunk_results[k]>> \o
            MutSortedResults([i \in (DOMAIN chunk_results) \ {k} |-> chunk_results[i]])

\* [chunk_results[i] for i in sorted(chunk_results.keys())]
RECURSIVE SortedResults(_)
SortedResults(chunk_results) ==
    IF DOMAIN chunk_results = {} THEN <<>>
    ELSE LET k == SetMin(DOMAIN chunk_results)
         IN <<chunk_results[k]>> \o
            SortedResults([i \in (DOMAIN chunk_results) \ {k} |-> chunk_results[i]])

\* for i, chunk_info in enumerate(chunk_buffer): pending_docs[doc]['chunk_results'][idx] = batch_results[i]
RECURSIVE StoreBatch(_, _, _, _)
StoreBatch(p, buffer, batch_results, i) ==
    IF i > Len(buffer) THEN p
    ELSE LET j == PendingIndex(p, buffer[i].doc_path)
         IN StoreBatch([p EXCEPT ![j].chunk_results =
                            StoreResult(@, buffer[i].chunk_index, batch_results[i])],
                       buffer, batch_results, i + 1)

\* [(None, error_info)] with error_info = {success: False, error, doc_path}.
ErrorResults(doc, error) ==
    <<[data |-> "None", success |-> FALSE, error |-> error, doc_path |-> doc]>>

\* Bookkeeping of a yield: the pair goes to the consumer.
Yield(doc, results, via) ==
    /\ last_yield' = [doc_path |-> doc, results |-> results, via |-> via, batch |-> batches]
    /\ yield_count' = [yield_count EXCEPT ![doc] = @ + 1]
    /\ yield_batch' = IF yield_count[doc] = 0
                      THEN [yield_batch EXCEPT ![doc] = batches]
                      ELSE yield_batch

NoYield == UNCHANGED <<last_yield, yield_count, yield_batch>>

\* callback(doc_path, results) returns, or (a callback that can raise) raises.
CallbackRaises == callback = "raises"

(***************************************************************************)
(* The generator process_documents_streaming_optimized.                    *)
(***************************************************************************)
DocConfigs == [chunking_ok : BOOLEAN, chunks : 0..MaxChunks]

RECURSIVE SeqsUpTo(_, _)
SeqsUpTo(S, n) ==
    IF n = 0 THEN {<<>>}
    ELSE LET shorter == SeqsUpTo(S, n - 1)
         IN shorter \cup {Append(s, x) : s \in {t \in shorter : Len(t) = n - 1}, x \in S}

SchedInit ==
    /\ doc_paths \in {s \in SeqsUpTo(DocConfigs, MaxDocs) :
                        /\ Len(s) >= 1
                        /\ \A i \in DOMAIN s : ~s[i].chunking_ok => s[i].chunks = 0}
    /\ batch_size \in 1..MaxBatch
    /\ callback \in {"none", "ok", "raises"}
    /\ chunk_gen = [d |-> 1, k |-> 0]
    /\ chunk_buffer = <<>>
    /\ pending_docs = <<>>
    /\ completed_docs = <<>>
    /\ loop_i = 0
    /\ pc = "refill"
    /\ last_yield = [doc_path |-> 0, results |-> <<>>, via |-> "none", batch |-> 0]
    /\ yield_count = [d \in DOMAIN doc_paths |-> 0]
    /\ yield_batch = [d \in DOMAIN doc_paths |-> 0]
    /\ recorded_batch = [d \in DOMAIN doc_paths |-> 0]
    /\ batches = 0
    /\ last_batch = [items |-> <<>>, outcomes |-> <<>>, results |-> <<>>]
    /\ failed = FALSE

\* while len(chunk_buffer) < batch_size: next(chunk_gen) is an ordinary chunk.
RefillChunk ==
    /\ pc = "refill"
    /\ Len(chunk_buffer) < batch_size
    /\ LET item == ChunkGenItem(chunk_gen)
       IN /\ item.kind = "chunk"
          /\ chunk_buffer' = Append(chunk_buffer,
                                    [doc_path |-> item.doc_path, chunk_index |-> item.chunk_index])
          /\ pending_docs' = IF item.doc_path \in PendingKeys THEN pending_docs
                             ELSE Append(pending_docs,
                                         [doc_path |-> item.doc_path,
                                          chunk_results |-> NoResults,
                                          is_complete |-> FALSE])
    /\ chunk_gen' = ChunkGenAdvance(chunk_gen)
    /\ NoYield
    /\ UNCHANGED notSchedVars
    /\ UNCHANGED <<doc_paths, batch_size, callback, completed_docs, loop_i, pc,
                   recorded_batch, batches, last_batch, failed>>

\* next(chunk_gen) is the end-of-document marker of a document whose chunking succeeded.
RefillDocEnd ==
    /\ pc = "refill"
    /\ Len(chunk_buffer) < batch_size
    /\ LET item == ChunkGenItem(chunk_gen)
       IN /\ item.kind = "doc_end"
          /\ pending_docs' = IF item.doc_path \in PendingKeys
                             THEN [pending_docs EXCEPT
                                      ![PendingIndex(pending_docs, item.doc_path)].is_complete = TRUE]
                             ELSE pending_docs
    /\ chunk_gen' = ChunkGenAdvance(chunk_gen)
    /\ NoYield
    /\ UNCHANGED notSchedVars
    /\ UNCHANGED <<doc_paths, batch_size, callback, chunk_buffer, completed_docs, loop_i,
                   pc, recorded_batch, batches, last_batch, failed>>

\* next(chunk_gen) is the marker of a document whose chunking raised: the
\* callback is called and the failed-document pair is yielded.
RefillDocError ==
    /\ pc = "refill"
    /\ Len(chunk_buffer) < batch_size
    /\ LET item == ChunkGenItem(chunk_gen)
       IN /\ item.kind = "doc_error"
          /\ \/ /\ TRUE
                /\ Yield(item.doc_path, ErrorResults(item.doc_path, "chunking failed"), "chunk_error")
                /\ UNCHANGED <<pc, loop_i, failed>>
             \/ /\ CallbackRaises
                /\ pc' = "handler"
                /\ loop_i' = 1
                /\ failed' = TRUE
                /\ NoYield
    /\ chunk_gen' = ChunkGenAdvance(chunk_gen)
    /\ UNCHANGED notSchedVars
    /\ UNCHANGED <<doc_paths, batch_size, callback, chunk_buffer, pending_docs,
                   completed_docs, recorded_batch, batches, last_batch>>

\* The refill loop ends (buffer full or StopIteration) and the buffer is empty: break.
RefillEndEmpty ==
    /\ pc = "refill"
    /\ Len(chunk_buffer) >= batch_size \/ ChunkGenItem(chunk_gen).kind = "stop"
    /\ chunk_buffer = <<>>
    /\ pc' = "done"
    /\ NoYield
    /\ UNCHANGED notSchedVars
    /\ UNCHANGED <<doc_paths, batch_size, callback, chunk_gen, chunk_buffer, pending_docs,
                   completed_docs, loop_i, recorded_batch, batches, last_batch, failed>>

\* The refill loop ends with a non-empty buffer: the buffer is dispatched as one
\* batch, each result is stored under (document, chunk_index), the buffer is cleared.
Dispatch ==
    /\ pc = "refill"
    /\ Len(chunk_buffer) >= batch_size \/ ChunkGenItem(chunk_gen).kind = "stop"
    /\ chunk_buffer # <<>>
    /\ \E outcomes \in [1..Len(chunk_buffer) -> ChunkOutcomes] :
          LET batch_results == BatchProcess(chunk_buffer, outcomes)
          IN /\ pending_docs' = StoreBatch(pending_docs, chunk_buffer, batch_results, 1)
             /\ last_batch' = [items |-> chunk_buffer, outcomes |-> outcomes,
                               results |-> batch_results]
    /\ batches' = batches + 1
    /\ recorded_batch' =
          [d \in DOMAIN recorded_batch |->
              IF \E i \in DOMAIN chunk_buffer :
                    /\ chunk_buffer[i].doc_path = d
                    /\ chunk_buffer[i].chunk_index = doc_paths[d].chunks - 1
              THEN batches + 1
              ELSE recorded_batch[d]]
    /\ chunk_buffer' = <<>>
    /\ completed_docs' = <<>>
    /\ loop_i' = 1
    /\ pc' = "emit"
    /\ NoYield
    /\ UNCHANGED notSchedVars
    /\ UNCHANGED <<doc_paths, batch_size, callback, chunk_gen, failed>>

\* for doc_path, doc_info in pending_docs.items(): a document that is not complete
\* (or has no result) is passed over.
EmitSkip ==
    /\ pc = "emit"
    /\ loop_i <= Len(pending_docs)
    /\ LET doc_info == pending_docs[loop_i]
       IN ~(doc_info.is_complete /\ DOMAIN doc_info.chunk_results # {})
    /\ loop_i' = loop_i + 1
    /\ NoYield
    /\ UNCHANGED notSchedVars
    /\ UNCHANGED <<doc_paths, batch_size, callback, chunk_gen, chunk_buffer, pending_docs,
                   completed_docs, pc, recorded_batch, batches, last_batch, failed>>

\* A complete document: its results sorted by chunk index, callback, yield.
EmitDoc ==
    /\ pc = "emit"
    /\ loop_i <= Len(pending_docs)
    /\ LET doc_info == pending_docs[loop_i]
       IN /\ doc_info.is_complete /\ DOMAIN doc_info.chunk_results # {}
          /\ \/ /\ TRUE
                /\ Yield(doc_info.doc_path, SortedResults(doc_info.chunk_results), "normal")
                /\ completed_docs' = Append(completed_docs, doc_info.doc_path)
                /\ loop_i' = loop_i + 1
                /\ UNCHANGED <<pc, failed>>
             \/ /\ CallbackRaises
                /\ pc' = "handler"
                /\ loop_i' = 1
                /\ failed' = TRUE
                /\ NoYield
                /\ UNCHANGED completed_docs
    /\ UNCHANGED notSchedVars
    /\ UNCHANGED <<doc_paths, batch_size, callback, chunk_gen, chunk_buffer, pending_docs,
                   recorded_batch, batches, last_batch>>

\* for doc_path in completed_docs: del pending_docs[doc_path]; next loop iteration.
EmitEnd ==
    /\ pc = "emit"
    /\ loop_i > Len(pending_docs)
    /\ pending_docs' = SelectSeq(pending_docs,
                                 LAMBDA e : e.doc_path \notin Range(completed_docs))
    /\ pc' = "refill"
    /\ NoYield
    /\ UNCHANGED notSchedVars
    /\ UNCHANGED <<doc_paths, batch_size, callback, chunk_gen, chunk_buffer,
                   completed_docs, loop_i, recorded_batch, batches, last_batch, failed>>

\* except Exception: for doc_path in pending_docs.keys(): callback, yield the
\* failed-document pair.  An exception of the callback here leaves the generator.
HandlerDoc ==
    /\ pc = "handler"
    /\ loop_i <= Len(pending_docs)
    /\ LET doc == pending_docs[loop_i].doc_path
       IN \/ /\ TRUE
             /\ Yield(doc, ErrorResults(doc, "batch failed"), "handler")
             /\ loop_i' = loop_i + 1
             /\ UNCHANGED pc
          \/ /\ CallbackRaises
             /\ pc' = "raised"
             /\ NoYield
             /\ UNCHANGED loop_i
    /\ UNCHANGED notSchedVars
    /\ UNCHANGED <<doc_paths, batch_size, callback, chunk_gen, chunk_buffer, pending_docs,
                   completed_docs, recorded_batch, batches, last_batch, failed>>

HandlerEnd ==
    /\ pc = "handler"
    /\ loop_i > Len(pending_docs)
    /\ pc' = "done"
    /\ NoYield
    /\ UNCHANGED notSchedVars
    /\ UNCHANGED <<doc_paths, batch_size, callback, chunk_gen, chunk_buffer, pending_docs,
                   completed_docs, loop_i, recorded_batch, batches, last_batch, failed>>

(***************************************************************************)
(* The scenario of five documents of 1, 1, 1, 1 and 10 chunks, a processor *)
(* built with the default max_workers and no batch_size argument, and a    *)
(* callback that is absent or returns.                                     *)
(***************************************************************************)
DefaultMaxWorkers == 4

\* Mutant of DefaultBatchSize: one item per worker.
MutDefaultBatchSize(max_workers) == max_workers

\* batch_size = max(self.max_workers * 2, 8)
DefaultBatchSize(max_workers) ==
    IF max_workers * 2 > 8 THEN max_workers * 2 ELSE 8

ScenarioChunks == <<1, 1, 1, 1, 10>>

ScenarioInit ==
    /\ doc_paths = [d \in DOMAIN ScenarioChunks |->
                        [chunking_ok |-> TRUE, chunks |-> ScenarioChunks[d]]]
    /\ batch_size = DefaultBatchSize(DefaultMaxWorkers)
    /\ callback \in {"none", "ok"}
    /\ chunk_gen = [d |-> 1, k |-> 0]
    /\ chunk_buffer = <<>>
    /\ pending_docs = <<>>
    /\ completed_docs = <<>>
    /\ loop_i = 0
    /\ pc = "refill"
    /\ last_yield = [doc_path |-> 0, results |-> <<>>, via |-> "none", batch |-> 0]
    /\ yield_count = [d \in DOMAIN ScenarioChunks |-> 0]
    /\ yield_batch = [d \in DOMAIN ScenarioChunks |-> 0]
    /\ recorded_batch = [d \in DOMAIN ScenarioChunks |-> 0]
    /\ batches = 0
    /\ last_batch = [items |-> <<>>, outcomes |-> <<>>, results |-> <<>>]
    /\ failed = FALSE

\* The steps the generator can take when no chunking and no callback raises.
ScenarioNext ==
    \/ RefillChunk
    \/ RefillDocEnd
    \/ RefillEndEmpty
    \/ Dispatch
    \/ EmitSkip
    \/ EmitDoc
    \/ EmitEnd

SchedNext ==
    \/ RefillChunk
    \/ RefillDocEnd
    \/ RefillDocError
    \/ RefillEndEmpty
    \/ Dispatch
    \/ EmitSkip
    \/ EmitDoc
    \/ EmitEnd
    \/ HandlerDoc
    \/ HandlerEnd


(***************************************************************************)
(* The graph validator (validator.py).                                     *)
(*                                                                         *)
(* A Python string that is built or taken apart at "-" is a sequence of    *)
(* its "-"-separated segments: "E-110000-20230101-FLOOD" is                *)
(* <<"E", "110000", "20230101", "FLOOD">>, "-".join(parts) is the          *)
(* concatenation and s.split("-")[-1] the last segment.  None and a        *)
(* missing key are the empty sequence (both are falsy in the source).      *)
(* The strings "独立状态"/"联合状态" are written "Independent"/"Joint",    *)
(* "事件"/"地点"/"设施" are "Event"/"Location"/"Facility", and the time    *)
(* separators "至" and "到" are the tokens "zhi" and "dao".                *)
(***************************************************************************)
None == <<>>

\* Segments in Python's string order (code points): what sorted() compares.
SegOrder == <<"1", "110000", "20230101", "E", "ES", "F", "FLOOD", "FS", "JS",
              "L", "LS", "QUAKE", "ST", "X">>

SegRank(seg) == CHOOSE i \in DOMAIN SegOrder : SegOrder[i] = seg

\* a < b for two strings whose segments hold only characters above "-".
RECURSIVE StrLess(_, _)
StrLess(a, b) ==
    IF b = <<>> THEN FALSE
    ELSE IF a = <<>> THEN TRUE
    ELSE IF Head(a) = Head(b) THEN StrLess(Tail(a), Tail(b))
    ELSE SegRank(Head(a)) < SegRank(Head(b))

\* sorted(ids): insertion of each id into an ascending list.
RECURSIVE InsertSorted(_, _)
InsertSorted(x, sorted) ==
    IF sorted = <<>> THEN <<x>>
    ELSE IF StrLess(x, Head(sorted)) THEN <<x>> \o sorted
    ELSE <<Head(sorted)>> \o InsertSorted(x, Tail(sorted))

RECURSIVE Sorted(_)
Sorted(ids) ==
    IF ids = <<>> THEN <<>> ELSE InsertSorted(Head(ids), Sorted(Tail(ids)))

\* "-".join(ids)
RECURSIVE Join(_)
Join(ids) == IF ids = <<>> THEN <<>> ELSE Head(ids) \o Join(Tail(ids))

\* list(dict.fromkeys(ids)): first occurrences, in order.
RECURSIVE Dedupe(_, _)
Dedupe(ids, seen) ==
    IF ids = <<>> THEN <<>>
    ELSE IF Head(ids) \in seen THEN Dedupe(Tail(ids), seen)
    ELSE <<Head(ids)>> \o Dedupe(Tail(ids), seen \cup {Head(ids)})

\* s.startswith(prefix + "-")
StartsWith(s, prefix) == Len(s) >= 2 /\ s[1] = prefix

\* "-".join(state_id.split("-")[-1:])
LastSegment(s) == <<s[Len(s)]>>

\* Character classes of the id_patterns, on segments.
AlnumSegs == {"1", "110000", "20230101", "E", "ES", "F", "FLOOD", "FS", "JS",
              "L", "LS", "QUAKE", "ST", "X"}
Digit8Segs == {"20230101"}
UpperSegs == {"E", "ES", "F", "FLOOD", "FS", "JS", "L", "LS", "QUAKE", "ST", "X"}

\* id_patterns["event"]: ^E-<alnum>-<8 digits>-<UPPER>$
MatchesEvent(id) ==
    /\ Len(id) = 4
    /\ id[1] = "E"
    /\ id[2] \in AlnumSegs
    /\ id[3] \in Digit8Segs
    /\ id[4] \in UpperSegs

\* id_patterns["location"]: ^L-<alnum>$ or ^L-<UPPER>-<name>$
MatchesLocation(id) ==
    /\ Len(id) >= 2
    /\ id[1] = "L"
    /\ \/ Len(id) = 2 /\ id[2] \in AlnumSegs
       \/ Len(id) >= 3 /\ id[2] \in UpperSegs

\* id_patterns["facility"]: ^F-<alnum>-<name>$
MatchesFacility(id) ==
    /\ Len(id) >= 3
    /\ id[1] = "F"
    /\ id[2] \in AlnumSegs

\* The time string as tokens: a calendar date, a separator, anything else.
DateToks == {"2023-10-01", "2023-10-10"}

\* group(1) + group(2) + group(3) of a date of time_pattern.
Compact(date) == IF date = "2023-10-01" THEN "20231001" ELSE "20231010"

\* time_pattern.match(time_range)
TimeMatches(time_range) ==
    /\ Len(time_range) = 3
    /\ time_range[1] \in DateToks
    /\ time_range[2] = "zhi"
    /\ time_range[3] \in DateToks

\* date_part = f"{start_date}_{end_date}"
DatePart(time_range) == <<Compact(time_range[1]) \o "_" \o Compact(time_range[3])>>

\* _correct_time_format: every "到" becomes "至"; None when there is none.
CorrectTimeFormat(time_str) ==
    IF \E i \in DOMAIN time_str : time_str[i] = "dao"
    THEN [i \in DOMAIN time_str |-> IF time_str[i] = "dao" THEN "zhi" ELSE time_str[i]]
    ELSE None

\* _validate_state_id
ValidateStateId(state_id, state_type, entity_ids, time_range) ==
    IF ~TimeMatches(time_range) THEN FALSE
    ELSE IF state_type = "Independent"
    THEN LET entity_id == entity_ids[1]
         IN IF StartsWith(entity_id, "E")
            THEN state_id = <<"ES">> \o entity_id \o DatePart(time_range)
            ELSE IF StartsWith(entity_id, "L")
            THEN state_id = <<"LS">> \o entity_id \o DatePart(time_range)
            ELSE IF StartsWith(entity_id, "F")
            THEN state_id = <<"FS">> \o entity_id \o DatePart(time_range)
            ELSE FALSE
    ELSE IF state_type = "Joint"
    THEN state_id = <<"JS">> \o Join(Sorted(entity_ids)) \o DatePart(time_range)
    ELSE FALSE

\* _generate_correct_state_id
GenerateCorrectStateId(state_type, entity_ids, time_range) ==
    IF ~TimeMatches(time_range) THEN None
    ELSE IF state_type = "Independent" /\ Len(entity_ids) = 1
    THEN LET entity_id == entity_ids[1]
         IN IF StartsWith(entity_id, "E")
            THEN <<"ES">> \o entity_id \o DatePart(time_range)
            ELSE IF StartsWith(entity_id, "L")
            THEN <<"LS">> \o entity_id \o DatePart(time_range)
            ELSE IF StartsWith(entity_id, "F")
            THEN <<"FS">> \o entity_id \o DatePart(time_range)
            ELSE None
    ELSE IF state_type = "Joint" /\ Len(entity_ids) >= 2
    THEN <<"JS">> \o Join(Sorted(entity_ids)) \o DatePart(time_range)
    ELSE None

(***************************************************************************)
(* The validation report.                                                  *)
(***************************************************************************)
\* reset_validation_report.  error_stats holds sets until
\* get_validation_report replaces them by lists (stats_type).  raised is set
\* once a statement on the report has raised; the statements after it in the
\* same call are not executed.
EmptyReport ==
    [errors_deleted |-> <<>>,
     warnings_modified |-> <<>>,
     warnings_unmodified |-> <<>>,
     error_stats |-> [base_entities |-> {}, state_entities |-> {}, state_relations |-> {}],
     stats_type |-> "set",
     raised |-> FALSE,
     error_counts |-> [base_entities |-> 0, state_entities |-> 0,
                       state_relations |-> 0, total |-> 0],
     error_rates |-> [base_entities |-> <<0, 1>>, state_entities |-> <<0, 1>>,
                      state_relations |-> <<0, 1>>, total |-> <<0, 1>>]]

\* validation_report["errors_deleted"].append(...)
AddError(report, msg, arg) ==
    IF report.raised THEN report
    ELSE [report EXCEPT !.errors_deleted = Append(@, [msg |-> msg, arg |-> arg])]

\* validation_report["warnings_modified"].append(...)
AddModified(report, msg, arg) ==
    IF report.raised THEN report
    ELSE [report EXCEPT !.warnings_modified = Append(@, [msg |-> msg, arg |-> arg])]

\* validation_report["warnings_unmodified"].append(...)
AddUnmodified(report, msg, arg) ==
    IF report.raised THEN report
    ELSE [report EXCEPT !.warnings_unmodified = Append(@, [msg |-> msg, arg |-> arg])]

\* validation_report["error_stats"][kind].add(id): a list has no add
\* (AttributeError).
AddStat(report, kind, id) ==
    IF report.raised THEN report
    ELSE IF report.stats_type = "list" THEN [report EXCEPT !.raised = TRUE]
    ELSE [report EXCEPT !.error_stats[kind] = @ \cup {id}]

\* get_validation_report: the sets of error_stats become lists.
GetValidationReport(report) == [report EXCEPT !.stats_type = "list"]

\* id_mapping[old] = new
MapSet(id_mapping, old, new) ==
    [k \in (DOMAIN id_mapping) \cup {old} |-> IF k = old THEN new ELSE id_mapping[k]]

(***************************************************************************)
(* Stage A: _validate_base_entities.                                       *)
(***************************************************************************)
\* One iteration of a loop that appends a record whose id was seen before.
MutBaseEntityStep(acc, entity) ==
    LET entity_type == entity.type
        entity_id == entity.id
        is_valid_id ==
            IF entity_type = "Event" THEN MatchesEvent(entity_id)
            ELSE IF entity_type = "Location" THEN MatchesLocation(entity_id)
            ELSE IF entity_type = "Facility" THEN MatchesFacility(entity_id)
            ELSE FALSE
    IN IF entity_type = "" \/ entity_id = None \/ ~is_valid_id
       THEN [acc EXCEPT !.report = AddError(@, "entity id format", entity_id)]
       ELSE IF entity_id \in acc.entity_ids
       THEN [acc EXCEPT !.report = AddUnmodified(@, "duplicate entity id", entity_id),
                        !.valid_entities = Append(@, entity)]
       ELSE [acc EXCEPT !.entity_ids = @ \cup {entity_id},
                        !.valid_entities = Append(@, entity)]

\* One iteration of "for entity in entities".
BaseEntityStep(acc, entity) ==
    LET entity_type == entity.type
        entity_id == entity.id
        is_valid_id ==
            IF entity_type = "Event" THEN MatchesEvent(entity_id)
            ELSE IF entity_type = "Location" THEN MatchesLocation(entity_id)
            ELSE IF entity_type = "Facility" THEN MatchesFacility(entity_id)
            ELSE FALSE
    IN IF entity_type = "" \/ entity_id = None
       THEN [acc EXCEPT !.report =
                LET r == AddError(@, "entity misses a field", entity_id)
                IN IF entity_id # None THEN AddStat(r, "base_entities", entity_id) ELSE r]
       ELSE IF ~is_valid_id
       THEN [acc EXCEPT !.report =
                AddStat(AddError(@, "entity id format", entity_id), "base_entities", entity_id)]
       ELSE LET r1 == IF entity_type \in {"Location", "Facility"} /\ entity.geo = ""
                      THEN AddStat(AddUnmodified(acc.report, "entity misses geo", entity_id),
                                   "base_entities", entity_id)
                      ELSE acc.report
            IN IF entity_id \in acc.entity_ids
               THEN [acc EXCEPT !.report =
                        AddStat(AddUnmodified(r1, "duplicate entity id", entity_id),
                                "base_entities", entity_id)]
               ELSE [acc EXCEPT !.report = r1,
                                !.entity_ids = @ \cup {entity_id},
                                !.valid_entities = Append(@, entity)]

RECURSIVE BaseEntityLoop(_, _, _)
BaseEntityLoop(acc, entities, i) ==
    IF i > Len(entities) THEN acc
    ELSE Only({BaseEntityLoop(next, entities, i + 1)
                 : next \in {BaseEntityStep(acc, entities[i])}})

ValidateBaseEntities(entities, report) ==
    BaseEntityLoop([valid_entities |-> <<>>, entity_ids |-> {}, report |-> report],
                   entities, 1)

(***************************************************************************)
(* Stage B: _validate_state_entities.  A frame holds the locals of one     *)
(* iteration of "for state in states" (state is the dict of the caller's   *)
(* payload, changed in place) together with what outlives the iteration:   *)
(* id_mapping, the report and new_prefix, a local of the function that is  *)
(* assigned only under the three known prefixes ("" while unbound).        *)
(* flow is "run", "continue" after a continue statement, or "raise" once   *)
(* an exception has left the loop.                                         *)
(***************************************************************************)
\* lines 245-248: required fields
CheckRequiredFields(f) ==
    IF f.state_type = "" \/ f.state_id = None \/ f.entity_ids = <<>> \/ f.time_range = None
    THEN [f EXCEPT !.report = AddStat(AddError(@, "state misses a field", f.state_id),
                                      "state_entities", f.state_id),
                   !.flow = "continue"]
    ELSE f

\* lines 251-254: allowed_state_types
CheckStateType(f) ==
    IF f.flow # "run" THEN f
    ELSE IF f.state_type \notin {"Independent", "Joint"}
    THEN [f EXCEPT !.report = AddStat(AddError(@, "state type", f.state_id),
                                      "state_entities", f.state_id),
                   !.flow = "continue"]
    ELSE f

\* lines 257-265: time format
CheckTimeFormat(f) ==
    IF f.flow # "run" \/ TimeMatches(f.time_range) THEN f
    ELSE LET corrected_time == CorrectTimeFormat(f.time_range)
         IN IF corrected_time # None
            THEN [f EXCEPT !.report = AddModified(@, "time format corrected", f.time_range),
                           !.state.time = corrected_time]
            ELSE [f EXCEPT !.report = AddStat(AddUnmodified(@, "time format", f.time_range),
                                              "state_entities", f.state_id)]

\* lines 268-276: duplicate entity ids
RemoveDuplicateIds(f) ==
    IF f.flow # "run" \/ Len(f.entity_ids) = Cardinality(Range(f.entity_ids)) THEN f
    ELSE LET entity_ids == Dedupe(f.entity_ids, {})
         IN [f EXCEPT !.entity_ids = entity_ids,
                      !.state.entity_ids = entity_ids,
                      !.report = AddStat(AddModified(@, "duplicate ids removed", f.state_id),
                                         "state_entities", f.state_id)]

\* Mutant of JointToIndependent: a joint state with fewer than two entities
\* is left as it is.
MutJointToIndependent(f) == f

\* lines 279-295: a joint state with fewer than two entities
JointToIndependent(f) ==
    IF f.flow # "run" \/ ~(f.state_type = "Joint" /\ Len(f.entity_ids) < 2) THEN f
    ELSE LET entity_id == f.entity_ids[1]
             new_prefix == IF StartsWith(entity_id, "E") THEN "ES"
                           ELSE IF StartsWith(entity_id, "L") THEN "LS"
                           ELSE IF StartsWith(entity_id, "F") THEN "FS"
                           ELSE f.new_prefix
             time_part == LastSegment(f.state_id)
             new_state_id == <<new_prefix>> \o entity_id \o time_part
         IN IF new_prefix = ""
            THEN [f EXCEPT !.state.type = "Independent", !.flow = "raise"]
            ELSE [f EXCEPT !.state.type = "Independent",
                           !.state.state_id = new_state_id,
                           !.new_prefix = new_prefix,
                           !.id_mapping = MapSet(@, f.original_state_id, new_state_id),
                           !.report = AddStat(AddModified(@, "joint to independent", f.state_id),
                                              "state_entities", new_state_id)]

\* lines 298-308: an independent state with more than one entity
IndependentToJoint(f) ==
    IF f.flow # "run" \/ ~(f.state_type = "Independent" /\ Len(f.entity_ids) > 1) THEN f
    ELSE LET entity_part == Join(Sorted(f.entity_ids))
             time_part == LastSegment(f.state_id)
             new_state_id == <<"JS">> \o entity_part \o time_part
         IN [f EXCEPT !.state.type = "Joint",
                      !.state.state_id = new_state_id,
                      !.id_mapping = MapSet(@, f.original_state_id, new_state_id),
                      !.report = AddStat(AddModified(@, "independent to joint", f.state_id),
                                         "state_entities", new_state_id)]

\* lines 311-314: every entity id must be a surviving base entity
CheckEntitiesExist(f, base_entity_ids) ==
    IF f.flow # "run" THEN f
    ELSE IF \E i \in DOMAIN f.entity_ids : f.entity_ids[i] \notin base_entity_ids
    THEN [f EXCEPT !.report = AddError(@, "unknown entity ids", f.state_id),
                   !.flow = "continue"]
    ELSE f

\* lines 317-329: the ids of a joint state in sorted order
SortJointIds(f) ==
    IF f.flow # "run" \/ f.state_type # "Joint" THEN f
    ELSE LET sorted_entity_ids == Sorted(f.entity_ids)
             time_part == LastSegment(f.state_id)
             new_state_id == <<"JS">> \o Join(sorted_entity_ids) \o time_part
         IN IF sorted_entity_ids = f.entity_ids THEN f
            ELSE [f EXCEPT !.state.entity_ids = sorted_entity_ids,
                           !.state.state_id = new_state_id,
                           !.id_mapping = MapSet(@, f.original_state_id, new_state_id),
                           !.report = AddModified(@, "joint ids sorted", f.original_state_id)]

\* lines 332-345: the id against type, entity ids and time
CheckStateIdConsistency(f) ==
    IF f.flow # "run" THEN f
    ELSE IF ValidateStateId(f.state.state_id, f.state.type, f.state.entity_ids, f.state.time)
    THEN f
    ELSE LET corrected_state_id ==
                 GenerateCorrectStateId(f.state.type, f.state.entity_ids, f.state.time)
         IN IF corrected_state_id # None
            THEN [f EXCEPT !.state.state_id = corrected_state_id,
                           !.id_mapping = MapSet(@, f.original_state_id, corrected_state_id),
                           !.report = AddStat(AddModified(@, "state id corrected",
                                                          f.original_state_id),
                                              "state_entities", corrected_state_id),
                           !.state_id = corrected_state_id]
            ELSE [f EXCEPT !.report = AddStat(AddUnmodified(@, "state id not correctable",
                                                            f.state_id),
                                              "state_entities", f.state_id)]

\* One iteration of "for state in states" (lines 237-353).
StateEntityStep(acc, state, base_entity_ids) ==
    LET f0 == [state |-> state,
               state_type |-> state.type,
               state_id |-> state.state_id,
               entity_ids |-> state.entity_ids,
               time_range |-> state.time,
               original_state_id |-> state.state_id,
               id_mapping |-> acc.id_mapping,
               report |-> acc.report,
               new_prefix |-> acc.new_prefix,
               flow |-> "run"]
        Result(f) ==
            [valid_states |-> IF f.flow = "run" THEN Append(acc.valid_states, f.state)
                              ELSE acc.valid_states,
             states |-> Append(acc.states, f.state),
             id_mapping |-> f.id_mapping,
             report |-> f.report,
             new_prefix |-> f.new_prefix,
             raised |-> f.flow = "raise"]
    IN Only({Result(f9) :
         f9 \in {CheckStateIdConsistency(f8) :
         f8 \in {SortJointIds(f7) :
         f7 \in {CheckEntitiesExist(f6, base_entity_ids) :
         f6 \in {IndependentToJoint(f5) :
         f5 \in {JointToIndependent(f4) :
         f4 \in {RemoveDuplicateIds(f3) :
         f3 \in {CheckTimeFormat(f2) :
         f2 \in {CheckStateType(f1) :
         f1 \in {CheckRequiredFields(f0)}}}}}}}}}})

RECURSIVE StateEntityLoop(_, _, _, _)
StateEntityLoop(acc, states, i, base_entity_ids) ==
    IF acc.raised THEN [acc EXCEPT !.states = @ \o SubSeq(states, i, Len(states))]
    ELSE IF i > Len(states) THEN acc
    ELSE Only({StateEntityLoop(next, states, i + 1, base_entity_ids)
                 : next \in {StateEntityStep(acc, states[i], base_entity_ids)}})

\* _update_state_relation_references: one pass, each relation changed in place.
UpdateStateRelationReferences(relations, id_mapping) ==
    [i \in DOMAIN relations |->
        [relations[i] EXCEPT
            !.subject_id = IF @ \in DOMAIN id_mapping THEN id_mapping[@] ELSE @,
            !.object_id = IF @ \in DOMAIN id_mapping THEN id_mapping[@] ELSE @]]

\* _validate_state_entities: the surviving states, the relations after the
\* rename pass, the input state dicts as the call leaves them, id_mapping as
\* the loop leaves it, the report.
ValidateStateEntities(states, base_entities, relations, report) ==
    LET base_entity_ids == {base_entities[i].id : i \in DOMAIN base_entities}
        Result(acc) ==
            [valid_states |-> acc.valid_states,
             valid_relations |-> IF ~acc.raised /\ DOMAIN acc.id_mapping # {}
                                 THEN UpdateStateRelationReferences(relations, acc.id_mapping)
                                 ELSE relations,
             states |-> acc.states,
             id_mapping |-> acc.id_mapping,
             report |-> acc.report,
             raised |-> acc.raised]
    IN Only({Result(acc) :
         acc \in {StateEntityLoop([valid_states |-> <<>>, states |-> <<>>,
                                   id_mapping |-> <<>>, report |-> report,
                                   new_prefix |-> "", raised |-> FALSE],
                                  states, 1, base_entity_ids)}})

(***************************************************************************)
(* Stage C: _validate_state_relations.                                     *)
(***************************************************************************)
\* allowed_relations ("触发" is written "trigger")
AllowedRelations == {"trigger"}

\* Mutant of StateRelationStep: the object id is not looked up in state_ids.
MutStateRelationStep(acc, relation, state_ids) ==
    IF relation.subject_id = None \/ relation.relation = "" \/ relation.object_id = None
       \/ relation.subject_id \notin state_ids
    THEN [acc EXCEPT !.report = AddError(@, "relation dropped", relation.subject_id)]
    ELSE [acc EXCEPT !.valid_relations = Append(@, relation)]

\* One iteration of "for relation in relations".
StateRelationStep(acc, relation, state_ids) ==
    LET subject_id == relation.subject_id
        relation_type == relation.relation
        object_id == relation.object_id
        basis == relation.basis
        AddBoth(r) == AddStat(AddStat(r, "state_relations", subject_id),
                              "state_relations", object_id)
    IN IF subject_id = None \/ relation_type = "" \/ object_id = None
       THEN LET r0 == AddError(acc.report, "relation misses a field", subject_id)
                r1 == IF subject_id # None THEN AddStat(r0, "state_relations", subject_id)
                      ELSE r0
                r2 == IF object_id # None THEN AddStat(r1, "state_relations", object_id)
                      ELSE r1
            IN [acc EXCEPT !.report = r2]
       ELSE LET r1 == IF relation_type \notin AllowedRelations
                      THEN AddBoth(AddUnmodified(acc.report, "relation type", subject_id))
                      ELSE acc.report
                r2 == IF basis = ""
                      THEN AddBoth(AddUnmodified(r1, "relation misses basis", subject_id))
                      ELSE r1
            IN IF subject_id \notin state_ids
               THEN [acc EXCEPT !.report =
                        AddStat(AddError(r2, "unknown subject state id", subject_id),
                                "state_relations", subject_id)]
               ELSE IF object_id \notin state_ids
               THEN [acc EXCEPT !.report =
                        AddStat(AddError(r2, "unknown object state id", object_id),
                                "state_relations", object_id)]
               ELSE [acc EXCEPT !.report = r2,
                                !.valid_relations = Append(@, relation)]

RECURSIVE StateRelationLoop(_, _, _, _)
StateRelationLoop(acc, relations, i, state_ids) ==
    IF i > Len(relations) THEN acc
    ELSE Only({StateRelationLoop(next, relations, i + 1, state_ids)
                 : next \in {StateRelationStep(acc, relations[i], state_ids)}})

ValidateStateRelations(relations, states, report) ==
    LET state_ids == {states[i].state_id : i \in DOMAIN states}
    IN StateRelationLoop([valid_relations |-> <<>>, report |-> report],
                         relations, 1, state_ids)

(***************************************************************************)
(* validate_data.  The three lists are copied, their records are not: what *)
(* Stage B writes into a state or a relation is written into the caller's  *)
(* payload as well.                                                        *)
(***************************************************************************)
\* count / total, as the pair <<count, total>>; 0.0 is <<0, 1>>.
Rate(count, total) == IF total > 0 THEN <<count, total>> ELSE <<0, 1>>

\* lines 138-158
WithCounts(report, payload) ==
    LET base_entity_count == Len(payload.base_entities)
        state_entity_count == Len(payload.state_entities)
        state_relation_count == Len(payload.state_relations)
        total_entities == base_entity_count + state_entity_count + state_relation_count
        base_entity_error_count == Cardinality(report.error_stats.base_entities)
        state_entity_error_count == Cardinality(report.error_stats.state_entities)
        state_relation_error_count == Cardinality(report.error_stats.state_relations)
        total_error_count == base_entity_error_count + state_entity_error_count
                             + state_relation_error_count
    IN [report EXCEPT
          !.error_counts = [base_entities |-> base_entity_error_count,
                            state_entities |-> state_entity_error_count,
                            state_relations |-> state_relation_error_count,
                            total |-> total_error_count],
          !.error_rates = [base_entities |-> Rate(base_entity_error_count, base_entity_count),
                           state_entities |-> Rate(state_entity_error_count, state_entity_count),
                           state_relations |-> Rate(state_relation_error_count,
                                                    state_relation_count),
                           total |-> Rate(total_error_count, total_entities)]]

NoPayload == [base_entities |-> <<>>, state_entities |-> <<>>, state_relations |-> <<>>]

\* What one call of validate_data(payload) leaves behind: whether an
\* exception left it, the returned payload, the caller's payload, the report.
ValidateDataCall(payload) ==
    LET After(b) == [base_entities |-> payload.base_entities,
                     state_entities |-> b.states,
                     state_relations |-> b.valid_relations]
        Returned(a, b, c) ==
            [raised |-> FALSE,
             validated_data |-> [base_entities |-> a.valid_entities,
                                 state_entities |-> b.valid_states,
                                 state_relations |-> c.valid_relations],
             data |-> After(b),
             report |-> GetValidationReport(WithCounts(c.report, payload))]
        StageC(a, b) ==
            IF b.raised
            THEN [raised |-> TRUE, validated_data |-> NoPayload, data |-> After(b),
                  report |-> b.report]
            ELSE Only({Returned(a, b, c) :
                   c \in {ValidateStateRelations(b.valid_relations, b.valid_states,
                                                 b.report)}})
        StageB(a) ==
            Only({StageC(a, b) :
              b \in {ValidateStateEntities(payload.state_entities, a.valid_entities,
                                           payload.state_relations, a.report)}})
    IN Only({StageB(a) : a \in {ValidateBaseEntities(payload.base_entities, EmptyReport)}})

(***************************************************************************)
(* Payloads given to validate_data.                                        *)
(***************************************************************************)
E1 == <<"E", "110000", "20230101", "FLOOD">>
E2 == <<"E", "110000", "20230101", "QUAKE">>
L1 == <<"L", "110000">>
X1 == <<"X", "110000">>
EShort == <<"E", "110000">>

BaseEntity(type, id, geo) == [type |-> type, id |-> id, geo |-> geo]

\* Base-entity sections: empty, valid ones in both orders, a location without
\* a description, a repeated id, an id that fails its pattern, no type, an id
\* first under a type whose pattern it fails and then twice under its own.
BaseLists ==
    {<<>>,
     <<BaseEntity("Event", E1, ""), BaseEntity("Location", L1, "north")>>,
     <<BaseEntity("Location", L1, ""), BaseEntity("Event", E1, "")>>,
     <<BaseEntity("Location", L1, "north"), BaseEntity("Location", L1, "")>>,
     <<BaseEntity("Event", EShort, ""), BaseEntity("", E1, ""),
       BaseEntity("Location", L1, "north")>>,
     <<BaseEntity("Event", L1, ""), BaseEntity("Location", L1, "north"),
       BaseEntity("Location", L1, "")>>}

TimeOk == <<"2023-10-01", "zhi", "2023-10-10">>
TimeDao == <<"2023-10-01", "dao", "2023-10-10">>
TimeBad == <<"2023-10-01", "~", "2023-10-10">>
\* "2023-10-01到2023-10": the alternate separator and an end that is no date
TimeDaoBad == <<"2023-10-01", "dao", "2023-10">>

\* Two ids a payload may store for a state: a non-canonical one and the
\* canonical id of the state of E1 over TimeOk.
OldId == <<"ST", "1">>
EsId == <<"ES">> \o E1 \o DatePart(TimeOk)

StateEntity(type, state_id, entity_ids, time) ==
    [type |-> type, state_id |-> state_id, entity_ids |-> entity_ids, time |-> time]

StatePool ==
    {StateEntity("Independent", EsId, <<E1>>, TimeOk),
     StateEntity("Independent", EsId, <<L1>>, TimeOk),
     StateEntity("Independent", OldId, <<L1, E1>>, TimeOk),
     StateEntity("Joint", OldId, <<L1, E1>>, TimeOk),
     StateEntity("Joint", OldId, <<E1>>, TimeOk),
     StateEntity("Joint", OldId, <<X1>>, TimeOk),
     StateEntity("Joint", OldId, <<E2>>, TimeOk),
     StateEntity("Joint", EsId, <<E1, E1>>, TimeOk),
     StateEntity("Independent", OldId, <<E1>>, TimeDao),
     StateEntity("Independent", EsId, <<E1>>, TimeDaoBad),
     StateEntity("Joint", OldId, <<L1, E1>>, TimeBad),
     StateEntity("Other", OldId, <<E1>>, TimeOk),
     StateEntity("Independent", None, <<E1>>, TimeOk)}

StateRelation(subject_id, relation, object_id, basis) ==
    [subject_id |-> subject_id, relation |-> relation, object_id |-> object_id,
     basis |-> basis]

RelationPool ==
    {StateRelation(OldId, "trigger", EsId, "text"),
     StateRelation(EsId, "trigger", OldId, "text"),
     StateRelation(OldId, "other", OldId, ""),
     StateRelation(OldId, "trigger", None, "text")}

Payloads ==
    [base_entities : BaseLists,
     state_entities : SeqsUpTo(StatePool, MaxStates),
     state_relations : SeqsUpTo(RelationPool, MaxRels)]

(***************************************************************************)
(* The validator as a state machine: a DataValidator is constructed, then  *)
(* validate_data is called on a payload and, if it returned, once more on  *)
(* the payload it returned.                                                *)
(***************************************************************************)
ValInit ==
    /\ data \in Payloads
    /\ data_before = data
    /\ validated_data = NoPayload
    /\ validation_report = EmptyReport
    /\ vpc = "ready"
    /\ calls = 0

\* validate_data(payload), whatever way it ends.
Validate(payload) ==
    \E v \in {ValidateDataCall(payload)} :
        /\ data_before' = payload
        /\ data' = v.data
        /\ validation_report' = v.report
        /\ validated_data' = IF v.raised THEN validated_data ELSE v.validated_data
        /\ vpc' = IF v.raised THEN "raised" ELSE "returned"
        /\ calls' = calls + 1

\* corrected, report = validator.validate_data(data)
ValidateData ==
    /\ vpc = "ready"
    /\ Validate(data)
    /\ UNCHANGED notValVars

\* corrected2, report2 = validator.validate_data(corrected)
Revalidate ==
    /\ vpc = "returned"
    /\ calls = 1
    /\ Validate(validated_data)
    /\ UNCHANGED notValVars

ValNext ==
    \/ ValidateData
    \/ Revalidate

(***************************************************************************)
(* Response recovery (processor.py): _extract_json and process_chunk.      *)
(*                                                                         *)
(* A response text is described by what the library calls make of it:      *)
(* its length, whether it is blank, what json.loads does on the whole      *)
(* text, on each fenced block the two code-block patterns match and on     *)
(* each candidate of _find_json_candidates, and what preprocessing,        *)
(* json_repair.repair_json and json.loads do on the whole text and on each *)
(* candidate.                                                              *)
(***************************************************************************)
\* json.loads: a value other than null, null, json.JSONDecodeError, or an
\* exception of another class (RecursionError, ValueError).
ParseOutcomes == {"payload", "null", "decode_error", "other_error"}

\* json.loads on a fenced block or a candidate, which starts with "{" or "[":
\* null is not among its values.
SpanOutcomes == ParseOutcomes \ {"null"}

\* _preprocess_for_repair, repair_json and json.loads together.
RepairOutcomes == {"payload", "null", "error"}

\* raw_response keeps response[:1000]
PreviewLimit == 1000

Lengths == {PreviewLimit - 1, PreviewLimit, PreviewLimit + 1}

SeqsOfLen(S, n) == [1..n -> S]

NoneResponse ==
    [is_none |-> TRUE, length |-> 0, blank |-> TRUE, direct |-> "decode_error",
     blocks |-> <<>>, candidates |-> <<>>, repairs |-> <<>>]

\* The empty string and the texts of white space only.
BlankResponses ==
    [is_none : {FALSE}, length : {0} \cup Lengths, blank : {TRUE},
     direct : {"decode_error"}, blocks : {<<>>}, candidates : {<<>>}, repairs : {<<>>}]

\* A text with a fenced block holds a "{" or a "[" with its closing
\* delimiter after it, so it has a candidate too; a text that is the literal
\* null has neither.
TextResponses ==
    UNION {[is_none : {FALSE}, length : Lengths, blank : {FALSE},
            direct : IF c = <<>> THEN ParseOutcomes ELSE ParseOutcomes \ {"null"},
            blocks : IF c = <<>> THEN {<<>>} ELSE SeqsUpTo(SpanOutcomes, MaxBlocks),
            candidates : {c},
            repairs : SeqsOfLen(RepairOutcomes, 1 + Len(c))]
           : c \in SeqsUpTo(SpanOutcomes, MaxCandidates)}

Responses == {NoneResponse} \cup BlankResponses \cup TextResponses

\* "not response"
Falsy(r) == r.is_none \/ r.length = 0

\* The attempts of _extract_json in the order of the code: strategy 1 on the
\* text, 2 on each fenced block, 3 on each candidate, 4 on the text and on
\* each candidate unless the content is blank.
LadderAttempts(r) ==
    <<[strategy |-> 1, outcome |-> r.direct]>>
    \o [i \in DOMAIN r.blocks |-> [strategy |-> 2, outcome |-> r.blocks[i]]]
    \o [i \in DOMAIN r.candidates |-> [strategy |-> 3, outcome |-> r.candidates[i]]]
    \o (IF r.blank THEN <<>>
        ELSE [i \in DOMAIN r.repairs |-> [strategy |-> 4, outcome |-> r.repairs[i]]])

\* Runs the attempts from the i-th on; made holds those already made.
\* Strategies 1 to 3 catch json.JSONDecodeError only, strategy 4 catches
\* Exception.
RECURSIVE RunLadder(_, _, _)
RunLadder(attempts, i, made) ==
    IF i > Len(attempts)
    THEN [raised |-> FALSE, value |-> "None", attempts |-> made]
    ELSE LET a == attempts[i]
             now == Append(made, a)
         IN IF a.outcome = "payload"
            THEN [raised |-> FALSE, value |-> "payload", attempts |-> now]
            ELSE IF a.outcome = "null"
            THEN [raised |-> FALSE, value |-> "None", attempts |-> now]
            ELSE IF a.outcome = "other_error"
            THEN [raised |-> TRUE, value |-> "None", attempts |-> now]
            ELSE RunLadder(attempts, i + 1, now)

\* _extract_json(response)
ExtractJson(r) ==
    IF Falsy(r) THEN [raised |-> FALSE, value |-> "None", attempts |-> <<>>]
    ELSE RunLadder(LadderAttempts(r), 1, <<>>)

\* response[:1000] if response else None
RawResponse(r) ==
    IF Falsy(r) THEN [is_none |-> TRUE, length |-> 0]
    ELSE [is_none |-> FALSE,
          length |-> IF r.length < PreviewLimit THEN r.length ELSE PreviewLimit]

NotExtracted == [raised |-> FALSE, value |-> "not called", attempts |-> <<>>]

NoChunkResult == [json_data |-> "None", info |-> [success |-> FALSE]]

RecInit ==
    /\ \/ api = "ok" /\ response \in Responses
       \/ api = "raise" /\ response = NoneResponse
    /\ rpc = "ready"
    /\ chunk_result = NoChunkResult
    /\ stats = [total_requests |-> 0, successful_requests |-> 0, failed_requests |-> 0,
                json_parsing_errors |-> 0]
    /\ extracted = NotExtracted

\* process_chunk(chunk, doc_name): the except clause turns every exception
\* raised inside into LLMProcessingError.
ProcessChunk ==
    /\ rpc = "ready"
    /\ IF api = "raise"
       THEN /\ stats' = [stats EXCEPT !.total_requests = @ + 1, !.failed_requests = @ + 1]
            /\ rpc' = "raised"
            /\ UNCHANGED <<chunk_result, extracted>>
       ELSE LET x == ExtractJson(response)
            IN /\ extracted' = x
               /\ IF x.raised
                  THEN /\ stats' = [stats EXCEPT !.total_requests = @ + 1,
                                                 !.failed_requests = @ + 1]
                       /\ rpc' = "raised"
                       /\ UNCHANGED chunk_result
                  ELSE IF x.value = "None"
                  THEN /\ stats' = [stats EXCEPT !.total_requests = @ + 1,
                                                 !.json_parsing_errors = @ + 1,
                                                 !.failed_requests = @ + 1]
                       /\ chunk_result' =
                             [json_data |-> "None",
                              info |-> [success |-> FALSE,
                                        error_type |-> "json_parse_error",
                                        raw_response |-> RawResponse(response),
                                        raw_response_length |-> response.length]]
                       /\ rpc' = "returned"
                  ELSE /\ stats' = [stats EXCEPT !.total_requests = @ + 1,
                                                 !.successful_requests = @ + 1]
                       /\ chunk_result' =
                             [json_data |-> "payload",
                              info |-> [success |-> TRUE,
                                        response_length |-> response.length]]
                       /\ rpc' = "returned"
    /\ UNCHANGED <<api, response>>
    /\ UNCHANGED notRecVars

RecNext == ProcessChunk

(***************************************************************************)
(* Two threads call validate_data on one DataValidator, each with its own  *)
(* payload, as worker threads of a batch that share a validator do.        *)
(* reset_validation_report binds the attribute validation_report to a new  *)
(* dict; every later statement of the call reads the attribute again and   *)
(* works on the dict it holds at that moment.  The statements of one stage *)
(* are taken as one step, so every interleaving here is one of the         *)
(* program's.                                                              *)
(***************************************************************************)
Threads == {1, 2}

ThreadPayloads ==
    [base_entities :
        {<<BaseEntity("Event", E1, ""), BaseEntity("Location", L1, "north")>>,
         <<BaseEntity("Event", E1, ""), BaseEntity("Location", L1, "")>>},
     state_entities :
        {<<>>,
         <<StateEntity("Independent", EsId, <<E1>>, TimeOk)>>,
         <<StateEntity("Independent", OldId, <<E1>>, TimeDao)>>},
     state_relations :
        {<<>>, <<StateRelation(OldId, "trigger", EsId, "text")>>}]

ThreadStart(payload) ==
    [pc |-> "reset", payload |-> payload, base_entities |-> <<>>,
     state_entities |-> <<>>, state_relations |-> <<>>, returned |-> 0]

ConcInit ==
    /\ report_objs = [o \in {0} \cup Threads |-> EmptyReport]
    /\ self_report = 0
    /\ thr \in [Threads -> {ThreadStart(p) : p \in ThreadPayloads}]

\* The dict the attribute holds gets the value r, unless a statement raised.
WriteReport(r) ==
    report_objs' = [report_objs EXCEPT ![self_report] = [r EXCEPT !.raised = FALSE]]

\* self.reset_validation_report() and the copies of the three lists
ThreadReset(t) ==
    /\ thr[t].pc = "reset"
    /\ report_objs' = [report_objs EXCEPT ![t] = EmptyReport]
    /\ self_report' = t
    /\ thr' = [thr EXCEPT ![t].pc = "stage_a"]
    /\ UNCHANGED notConcVars

\* validated_data["基础实体"] = self._validate_base_entities(...)
ThreadStageA(t) ==
    /\ thr[t].pc = "stage_a"
    /\ \E a \in {ValidateBaseEntities(thr[t].payload.base_entities,
                                       report_objs[self_report])} :
          /\ WriteReport(a.report)
          /\ thr' = [thr EXCEPT ![t].pc = IF a.report.raised THEN "raised" ELSE "stage_b",
                                ![t].base_entities = a.valid_entities]
    /\ UNCHANGED self_report
    /\ UNCHANGED notConcVars

\* validated_data["状态实体"], validated_data["状态关系"] = self._validate_state_entities(...)
ThreadStageB(t) ==
    /\ thr[t].pc = "stage_b"
    /\ \E b \in {ValidateStateEntities(thr[t].payload.state_entities,
                                        thr[t].base_entities,
                                        thr[t].payload.state_relations,
                                        report_objs[self_report])} :
          /\ WriteReport(b.report)
          /\ thr' = [thr EXCEPT ![t].pc = IF b.report.raised \/ b.raised THEN "raised"
                                          ELSE "stage_c",
                                ![t].state_entities = b.valid_states,
                                ![t].state_relations = b.valid_relations]
    /\ UNCHANGED self_report
    /\ UNCHANGED notConcVars

\* validated_data["状态关系"] = self._validate_state_relations(...)
ThreadStageC(t) ==
    /\ thr[t].pc = "stage_c"
    /\ \E c \in {ValidateStateRelations(thr[t].state_relations, thr[t].state_entities,
                                         report_objs[self_report])} :
          /\ WriteReport(c.report)
          /\ thr' = [thr EXCEPT ![t].pc = IF c.report.raised THEN "raised" ELSE "counts",
                                ![t].state_relations = c.valid_relations]
    /\ UNCHANGED self_report
    /\ UNCHANGED notConcVars

\* lines 138-164: the counts and rates
ThreadCounts(t) ==
    /\ thr[t].pc = "counts"
    /\ WriteReport(WithCounts(report_objs[self_report], thr[t].payload))
    /\ thr' = [thr EXCEPT ![t].pc = "return"]
    /\ UNCHANGED self_report
    /\ UNCHANGED notConcVars

\* return validated_data, self.get_validation_report()
ThreadReturn(t) ==
    /\ thr[t].pc = "return"
    /\ WriteReport(GetValidationReport(report_objs[self_report]))
    /\ thr' = [thr EXCEPT ![t].pc = "returned", ![t].returned = self_report]
    /\ UNCHANGED self_report
    /\ UNCHANGED notConcVars

ConcNext ==
    \E t \in Threads :
        \/ ThreadReset(t)
        \/ ThreadStageA(t)
        \/ ThreadStageB(t)
        \/ ThreadStageC(t)
        \/ ThreadCounts(t)
        \/ ThreadReturn(t)

(***************************************************************************)
(* batch_process at the level of its threads, called by the scheduler loop *)
(* once per filled buffer.  _batch_process_parallel submits one task per   *)
(* item to a ThreadPoolExecutor(max_workers), whose workers take the tasks *)
(* in submission order and finish them in any order; the caller stores     *)
(* each future's value as as_completed hands it over and returns when the  *)
(* with block has ended.  All tasks are taken as submitted in one step.    *)
(***************************************************************************)
ChunkItem(doc_name, chunk_index) == [doc_path |-> doc_name, chunk_index |-> chunk_index]

\* What chunk_generator hands out for one document, for two documents, for
\* three: the chunks of each document in index order, document after document.
Corpora ==
    {<<ChunkItem("a", 0)>>,
     <<ChunkItem("a", 0), ChunkItem("b", 0)>>,
     <<ChunkItem("a", 0), ChunkItem("a", 1), ChunkItem("b", 0)>>,
     <<ChunkItem("a", 0), ChunkItem("b", 0), ChunkItem("b", 1), ChunkItem("c", 0)>>}

Configs == [batch_size : 1..MaxBatch, max_workers : 1..MaxWorkers, enable_parallel : BOOLEAN]

NoReturn == [items |-> <<>>, results |-> <<>>, order |-> <<>>]

\* The None a slot of results holds until its future is collected.
NoResult ==
    [data |-> "None", success |-> FALSE, doc_name |-> "", chunk_index |-> -1,
     global_index |-> -1]

NoFuture == [state |-> "pending", value |-> NoResult]

BatchInit ==
    /\ corpus \in Corpora
    /\ config \in Configs
    /\ bp_items = <<>>
    /\ futures = <<>>
    /\ bp_results = <<>>
    /\ active = {}
    /\ batch_no = 0
    /\ bpc = "refill"
    /\ returned = NoReturn

\* The refill loop: chunks are appended while len(chunk_buffer) < batch_size
\* and chunk_generator has one.
Refilled(stream, size) ==
    SubSeq(stream, 1, IF Len(stream) < size THEN Len(stream) ELSE size)

\* Mutant of WorkerFree: a worker is started for every task.
MutWorkerFree(running, max_workers) == TRUE

\* ThreadPoolExecutor starts a task while fewer than max_workers run.
WorkerFree(running, max_workers) == running < max_workers

\* Mutant of StoreAt: the value goes to the first slot still empty.
MutStoreAt(list, global_index, value) ==
    [list EXCEPT ![SetMin({i \in DOMAIN list : list[i] = NoResult})] = value]

\* results[global_index] = future.result()
StoreAt(list, global_index, value) ==
    [list EXCEPT ![global_index + 1] = value]

\* The buffer is filled and passed to batch_process, which takes the serial
\* or the parallel path.
BatchDispatch ==
    /\ bpc = "refill"
    /\ corpus # <<>>
    /\ \E buffer \in {Refilled(corpus, config.batch_size)} :
          /\ bp_items' = buffer
          /\ corpus' = SubSeq(corpus, Len(buffer) + 1, Len(corpus))
          /\ IF ~config.enable_parallel \/ Len(buffer) <= 1
             THEN /\ bpc' = "serial"
                  /\ bp_results' = <<>>
                  /\ futures' = <<>>
             ELSE /\ bpc' = "parallel"
                  /\ bp_results' = [i \in DOMAIN buffer |-> NoResult]
                  /\ futures' = [i \in DOMAIN buffer |-> NoFuture]
    /\ batch_no' = batch_no + 1
    /\ returned' = NoReturn
    /\ UNCHANGED <<config, active>>
    /\ UNCHANGED notBatchVars

\* The buffer is empty after the refill loop: break.
BatchDone ==
    /\ bpc = "refill"
    /\ corpus = <<>>
    /\ bpc' = "done"
    /\ UNCHANGED <<corpus, config, bp_items, futures, bp_results, active, batch_no, returned>>
    /\ UNCHANGED notBatchVars

\* _batch_process_serial: the next item's process_chunk call begins.
SerialStart ==
    /\ bpc = "serial"
    /\ active = {}
    /\ Len(bp_results) < Len(bp_items)
    /\ active' = {<<batch_no, Len(bp_results)>>}
    /\ UNCHANGED <<corpus, config, bp_items, futures, bp_results, batch_no, bpc, returned>>
    /\ UNCHANGED notBatchVars

\* ... and ends: the result, tagged, or the error_info is appended.
SerialFinish ==
    /\ bpc = "serial"
    /\ active # {}
    /\ \E outcome \in ChunkOutcomes :
          LET i == Len(bp_results) + 1
          IN bp_results' = Append(bp_results,
                               ProcessChunkWithMetadata(i - 1, bp_items[i].doc_path,
                                                        bp_items[i].chunk_index, outcome))
    /\ active' = {}
    /\ UNCHANGED <<corpus, config, bp_items, futures, batch_no, bpc, returned>>
    /\ UNCHANGED notBatchVars

\* return results
SerialReturn ==
    /\ bpc = "serial"
    /\ active = {}
    /\ Len(bp_results) = Len(bp_items)
    /\ returned' = [items |-> bp_items, results |-> bp_results,
                    order |-> [i \in DOMAIN bp_items |-> i - 1]]
    /\ bpc' = "refill"
    /\ UNCHANGED <<corpus, config, bp_items, futures, bp_results, active, batch_no>>
    /\ UNCHANGED notBatchVars

\* A worker takes the oldest task not yet started.
WorkerStart ==
    /\ bpc = "parallel"
    /\ WorkerFree(Cardinality(active), config.max_workers)
    /\ \E i \in DOMAIN futures :
          /\ futures[i].state = "pending"
          /\ \A j \in 1..(i - 1) : futures[j].state # "pending"
          /\ futures' = [futures EXCEPT ![i].state = "running"]
          /\ active' = active \cup {<<batch_no, i - 1>>}
    /\ UNCHANGED <<corpus, config, bp_items, bp_results, batch_no, bpc, returned>>
    /\ UNCHANGED notBatchVars

\* A running _process_chunk_with_metadata call returns its tuple.
WorkerFinish ==
    /\ bpc = "parallel"
    /\ \E i \in DOMAIN futures, outcome \in ChunkOutcomes :
          /\ futures[i].state = "running"
          /\ futures' = [futures EXCEPT ![i] =
                [state |-> "finished",
                 value |-> ProcessChunkWithMetadata(i - 1, bp_items[i].doc_path,
                                                    bp_items[i].chunk_index, outcome)]]
          /\ active' = active \ {<<batch_no, i - 1>>}
    /\ UNCHANGED <<corpus, config, bp_items, bp_results, batch_no, bpc, returned>>
    /\ UNCHANGED notBatchVars

\* for future in as_completed(future_to_index): a finished future is handed
\* over and its value stored.
Collect ==
    /\ bpc = "parallel"
    /\ \E i \in DOMAIN futures :
          /\ futures[i].state = "finished"
          /\ futures' = [futures EXCEPT ![i].state = "collected"]
          /\ bp_results' = StoreAt(bp_results, i - 1, futures[i].value)
          /\ returned' = [returned EXCEPT !.order = Append(@, i - 1)]
    /\ UNCHANGED <<corpus, config, bp_items, active, batch_no, bpc>>
    /\ UNCHANGED notBatchVars

\* as_completed is exhausted, the with block ends: return results
ParallelReturn ==
    /\ bpc = "parallel"
    /\ \A i \in DOMAIN futures : futures[i].state = "collected"
    /\ returned' = [returned EXCEPT !.items = bp_items, !.results = bp_results]
    /\ bpc' = "refill"
    /\ UNCHANGED <<corpus, config, bp_items, futures, bp_results, active, batch_no>>
    /\ UNCHANGED notBatchVars

BatchNext ==
    \/ BatchDispatch
    \/ BatchDone
    \/ SerialStart
    \/ SerialFinish
    \/ SerialReturn
    \/ WorkerStart
    \/ WorkerFinish
    \/ Collect
    \/ ParallelReturn

(***************************************************************************)
(* The text functions of the recovery ladder (processor.py):               *)
(* _extract_balanced_braces, _find_json_candidates, _preprocess_for_repair.*)
(* A text is a sequence of characters; the functions tell apart the four   *)
(* delimiters, the comma, the double quote and white space only; "x" is an *)
(* ordinary character and "X" stands for a run of ten of another one.      *)
(***************************************************************************)
Chars == {"{", "}", "[", "]", ",", "\"", " ", "x", "X"}

\* len(candidate) > 10
MinCandidateLen == 10

\* candidates[:10]
CandidateLimit == 10

Width(char) == IF char = "X" THEN MinCandidateLen ELSE 1

\* len(s)
RECURSIVE TextLen(_)
TextLen(s) == IF s = <<>> THEN 0 ELSE Width(Head(s)) + TextLen(Tail(s))

\* s.count(char)
Count(s, char) == Cardinality({i \in DOMAIN s : s[i] = char})

\* s.find(char) and s.rfind(char) as positions from 1; 0 when there is none.
Find(s, char) ==
    IF \E i \in DOMAIN s : s[i] = char THEN SetMin({i \in DOMAIN s : s[i] = char}) ELSE 0

RFind(s, char) ==
    IF \E i \in DOMAIN s : s[i] = char THEN SetMax({i \in DOMAIN s : s[i] = char}) ELSE 0

\* The for loop of _extract_balanced_braces from position i on.
RECURSIVE BraceLoop(_, _, _, _, _)
BraceLoop(s, i, brace_count, start_pos, candidates) ==
    IF i > Len(s) THEN candidates
    ELSE IF s[i] = "{"
    THEN BraceLoop(s, i + 1, brace_count + 1,
                   IF brace_count = 0 THEN i ELSE start_pos, candidates)
    ELSE IF s[i] = "}"
    THEN IF brace_count - 1 = 0 /\ start_pos # 0
         THEN LET candidate == SubSeq(s, start_pos, i)
              IN BraceLoop(s, i + 1, 0, 0,
                           IF TextLen(candidate) > MinCandidateLen
                           THEN Append(candidates, candidate) ELSE candidates)
         ELSE BraceLoop(s, i + 1, brace_count - 1, start_pos, candidates)
    ELSE BraceLoop(s, i + 1, brace_count, start_pos, candidates)

ExtractBalancedBraces(s) == BraceLoop(s, 1, 0, 0, <<>>)

\* The sort key (len(x), x.count('{'), x.count('}')) and its order.
SortKey(c) == <<TextLen(c), Count(c, "{"), Count(c, "}")>>

KeyGreater(a, b) ==
    \/ a[1] > b[1]
    \/ a[1] = b[1] /\ a[2] > b[2]
    \/ a[1] = b[1] /\ a[2] = b[2] /\ a[3] > b[3]

\* candidates.sort(key=..., reverse=True): descending, equal keys in list order.
RECURSIVE SortCandidates(_)
SortCandidates(candidates) ==
    IF candidates = <<>> THEN <<>>
    ELSE LET first == SetMin({i \in DOMAIN candidates :
                         \A j \in DOMAIN candidates :
                            ~KeyGreater(SortKey(candidates[j]), SortKey(candidates[i]))})
         IN <<candidates[first]>>
            \o SortCandidates([j \in 1..(Len(candidates) - 1) |->
                                  IF j < first THEN candidates[j] ELSE candidates[j + 1]])

\* One of methods 2 and 3: the text from the first opening to the last closing
\* delimiter, unless it is a candidate already.
WithOuterSpan(candidates, s, opening, closing) ==
    LET first == Find(s, opening)
        last == RFind(s, closing)
    IN IF first # 0 /\ last # 0 /\ last > first
          /\ SubSeq(s, first, last) \notin Range(candidates)
       THEN Append(candidates, SubSeq(s, first, last))
       ELSE candidates

\* _find_json_candidates
FindJsonCandidates(s) ==
    LET sorted == SortCandidates(
                     WithOuterSpan(WithOuterSpan(ExtractBalancedBraces(s), s, "{", "}"),
                                   s, "[", "]"))
    IN SubSeq(sorted, 1, IF Len(sorted) < CandidateLimit THEN Len(sorted) ELSE CandidateLimit)

\* content.strip()
RECURSIVE LStrip(_, _)
LStrip(s, char) == IF s # <<>> /\ Head(s) = char THEN LStrip(Tail(s), char) ELSE s

RECURSIVE RStrip(_, _)
RStrip(s, char) ==
    IF s # <<>> /\ s[Len(s)] = char THEN RStrip(SubSeq(s, 1, Len(s) - 1), char) ELSE s

StartsWithChar(s, char) == s # <<>> /\ Head(s) = char

EndsWithChar(s, char) == s # <<>> /\ s[Len(s)] = char

Repeat(char, n) == [i \in 1..n |-> char]

\* Step 2 of _preprocess_for_repair: the text from its first "{" or "[" on.
FromFirstDelimiter(content) ==
    IF StartsWithChar(content, "{") \/ StartsWithChar(content, "[") THEN content
    ELSE LET first_brace == Find(content, "{")
             first_bracket == Find(content, "[")
             start_pos == IF first_brace # 0 /\ first_bracket # 0
                          THEN (IF first_brace < first_bracket THEN first_brace
                                ELSE first_bracket)
                          ELSE IF first_brace # 0 THEN first_brace
                          ELSE first_bracket
         IN IF start_pos # 0 THEN SubSeq(content, start_pos, Len(content)) ELSE content

\* Step 3: completion of a text that does not end with "}" or "]".
Completed(content) ==
    IF EndsWithChar(content, "}") \/ EndsWithChar(content, "]") THEN content
    ELSE IF StartsWithChar(content, "{")
    THEN LET missing_braces == Count(content, "{") - Count(content, "}")
         IN IF missing_braces > 0
            THEN IF EndsWithChar(RStrip(content, " "), "\"")
                    \/ EndsWithChar(RStrip(content, " "), ",")
                 THEN RStrip(RStrip(content, " "), ",") \o <<"}">>
                 ELSE content \o Repeat("}", missing_braces)
            ELSE content
    ELSE IF StartsWithChar(content, "[")
    THEN LET missing_brackets == Count(content, "[") - Count(content, "]")
         IN IF missing_brackets > 0 THEN content \o Repeat("]", missing_brackets)
            ELSE content
    ELSE content

\* _preprocess_for_repair
PreprocessForRepair(content) ==
    Completed(FromFirstDelimiter(RStrip(LStrip(content, " "), " ")))

TextInit ==
    /\ text \in SeqsUpTo(Chars, MaxText)
    /\ found = <<>>
    /\ processed = <<>>
    /\ tpc = "ready"

\* json_candidates = self._find_json_candidates(response, extract_logger)
FindCandidates ==
    /\ tpc = "ready"
    /\ found' = FindJsonCandidates(text)
    /\ tpc' = "scanned"
    /\ UNCHANGED <<text, processed>>
    /\ UNCHANGED notTextVars

\* processed_content = self._preprocess_for_repair(content, extract_logger)
Preprocess ==
    /\ tpc = "ready"
    /\ processed' = PreprocessForRepair(text)
    /\ tpc' = "preprocessed"
    /\ UNCHANGED <<text, found>>
    /\ UNCHANGED notTextVars

TextNext ==
    \/ FindCandidates
    \/ Preprocess

(***************************************************************************)
(* The retry loop of _call_llm_api.  Every pass of the loop calls the      *)
(* service once, directly or through _handle_stream_response, which turns  *)
(* any exception into APIConnectionError; the loop catches both.           *)
(***************************************************************************)
MaxRetries == 4
MaxDelay == 2

\* what a successful pass returns: message.content (a text or None) on the
\* direct branch, the joined content parts (a text or "") on the streaming one
ApiTexts == {"text", "None"}
StreamTexts == {"text", ""}

\* retry_delay * (2 ** attempt)
MutBackoffDelay(delay, n) == delay

BackoffDelay(delay, n) == delay * 2^n

\* the exception the except clause of the loop sees
CaughtException == IF stream_mode THEN "APIConnectionError" ELSE "Exception"

RetryInit ==
    /\ max_retries \in 0..MaxRetries
    /\ retry_delay \in 1..MaxDelay
    /\ stream_mode \in BOOLEAN
    /\ attempt = 0
    /\ service_calls = <<>>
    /\ sleeps = <<>>
    /\ last_exception = "None"
    /\ api_return = "None"
    /\ qpc = "loop"

\* the call inside the try succeeds: return
AttemptReturns ==
    /\ qpc = "loop"
    /\ attempt < max_retries
    /\ service_calls' = Append(service_calls, "ok")
    /\ api_return' \in (IF stream_mode THEN StreamTexts ELSE ApiTexts)
    /\ qpc' = "returned"
    /\ UNCHANGED <<max_retries, retry_delay, stream_mode, attempt, sleeps, last_exception>>
    /\ UNCHANGED notRetryVars

\* the call raises and attempt < max_retries - 1: sleep and continue
AttemptFailsSleep ==
    /\ qpc = "loop"
    /\ attempt < max_retries
    /\ attempt < max_retries - 1
    /\ service_calls' = Append(service_calls, "fail")
    /\ last_exception' = CaughtException
    /\ sleeps' = Append(sleeps, BackoffDelay(retry_delay, attempt))
    /\ attempt' = attempt + 1
    /\ UNCHANGED <<max_retries, retry_delay, stream_mode, api_return, qpc>>
    /\ UNCHANGED notRetryVars

\* the call raises on the last pass: break, then raise APIConnectionError
AttemptFailsBreak ==
    /\ qpc = "loop"
    /\ attempt < max_retries
    /\ ~(attempt < max_retries - 1)
    /\ service_calls' = Append(service_calls, "fail")
    /\ last_exception' = CaughtException
    /\ qpc' = "raised"
    /\ UNCHANGED <<max_retries, retry_delay, stream_mode, attempt, sleeps, api_return>>
    /\ UNCHANGED notRetryVars

\* range(self.max_retries) is empty: the loop body never runs
LoopEmpty ==
    /\ qpc = "loop"
    /\ ~(attempt < max_retries)
    /\ qpc' = "raised"
    /\ UNCHANGED <<max_retries, retry_delay, stream_mode, attempt, service_calls, sleeps,
                   last_exception, api_return>>
    /\ UNCHANGED notRetryVars

RetryNext ==
    \/ AttemptReturns
    \/ AttemptFailsSleep
    \/ AttemptFailsBreak
    \/ LoopEmpty

(***************************************************************************)
(* The counters of self.stats under a parallel batch_process.  Each chunk  *)
(* item is a process_chunk call on a pool thread.  self.stats[k] += 1 is a *)
(* read of the counter followed by a write of the value read plus one;     *)
(* no lock is held, so another thread can run between the two.             *)
(***************************************************************************)
MaxItems == 3
MaxPool == 2

StartStats == {[total_requests |-> 0, successful_requests |-> 0, failed_requests |-> 0,
                json_parsing_errors |-> 0],
               [total_requests |-> 2, successful_requests |-> 1, failed_requests |-> 1,
                json_parsing_errors |-> 1]}

\* a thread: where it is, the counters it has still to update before its
\* next step, the value it read, whether the response has been handled
QueuedWorker == [pc |-> "queued", todo |-> <<>>, read |-> 0, responded |-> FALSE]

\* the counters process_chunk updates after the response, by what happened:
\* json_data is None, the normal end, an exception inside the try
CountersAfter(outcome) ==
    IF outcome = "json_none" THEN <<"json_parsing_errors", "failed_requests">>
    ELSE IF outcome = "success" THEN <<"successful_requests">>
    ELSE <<"failed_requests">>

StatsInit ==
    /\ shared_stats \in StartStats
    /\ stats_before = shared_stats
    /\ n_items \in 1..MaxItems
    /\ pool_size \in 1..MaxPool
    /\ workers = [i \in 1..n_items |-> QueuedWorker]
    /\ spc = "running"

\* a pool thread takes the item: process_chunk begins
WorkerBegins(i) ==
    /\ spc = "running"
    /\ workers[i].pc = "queued"
    /\ Cardinality({j \in DOMAIN workers : workers[j].pc \notin {"queued", "done"}})
          < pool_size
    /\ workers' = [workers EXCEPT ![i].pc = "read", ![i].todo = <<"total_requests">>]
    /\ UNCHANGED <<shared_stats, stats_before, n_items, pool_size, spc>>
    /\ UNCHANGED notStatsVars

\* the read half of self.stats[k] += 1
ReadCounter(i) ==
    /\ spc = "running"
    /\ workers[i].pc = "read"
    /\ workers' = [workers EXCEPT ![i].read = shared_stats[Head(workers[i].todo)],
                                  ![i].pc = "write"]
    /\ UNCHANGED <<shared_stats, stats_before, n_items, pool_size, spc>>
    /\ UNCHANGED notStatsVars

\* the write half of self.stats[k] += 1
WriteCounter(i) ==
    /\ spc = "running"
    /\ workers[i].pc = "write"
    /\ shared_stats' = [shared_stats EXCEPT ![Head(workers[i].todo)] = workers[i].read + 1]
    /\ workers' = [workers EXCEPT
                      ![i].todo = Tail(@),
                      ![i].pc = IF Tail(workers[i].todo) # <<>> THEN "read"
                                ELSE IF workers[i].responded THEN "done" ELSE "call"]
    /\ UNCHANGED <<stats_before, n_items, pool_size, spc>>
    /\ UNCHANGED notStatsVars

\* the service call and the extraction end one of the three ways
Responds(i) ==
    /\ spc = "running"
    /\ workers[i].pc = "call"
    /\ \E outcome \in {"success", "json_none", "exception"} :
          workers' = [workers EXCEPT ![i].pc = "read",
                                     ![i].todo = CountersAfter(outcome),
                                     ![i].responded = TRUE]
    /\ UNCHANGED <<shared_stats, stats_before, n_items, pool_size, spc>>
    /\ UNCHANGED notStatsVars

\* every future is done: the with block ends and batch_process returns
StatsReturn ==
    /\ spc = "running"
    /\ \A i \in DOMAIN workers : workers[i].pc = "done"
    /\ spc' = "returned"
    /\ UNCHANGED <<shared_stats, stats_before, n_items, pool_size, workers>>
    /\ UNCHANGED notStatsVars

StatsNext ==
    \/ \E i \in DOMAIN workers : WorkerBegins(i)
    \/ \E i \in DOMAIN workers : ReadCounter(i)
    \/ \E i \in DOMAIN workers : WriteCounter(i)
    \/ \E i \in DOMAIN workers : Responds(i)
    \/ StatsReturn

(***************************************************************************)
(* Specifications: one per component; the other component stands still.    *)
(***************************************************************************)
SchedIdle ==
    /\ doc_paths = <<>>
    /\ batch_size = 1
    /\ callback = "none"
    /\ chunk_gen = [d |-> 1, k |-> 0]
    /\ chunk_buffer = <<>>
    /\ pending_docs = <<>>
    /\ completed_docs = <<>>
    /\ loop_i = 1
    /\ pc = "idle"
    /\ last_yield = [doc_path |-> 0, results |-> <<>>, via |-> "none", batch |-> 0]
    /\ yield_count = <<>>
    /\ yield_batch = <<>>
    /\ recorded_batch = <<>>
    /\ batches = 0
    /\ last_batch = [items |-> <<>>, outcomes |-> <<>>, results |-> <<>>]
    /\ failed = FALSE

ValIdle ==
    /\ data = NoPayload
    /\ data_before = NoPayload
    /\ validated_data = NoPayload
    /\ validation_report = EmptyReport
    /\ vpc = "idle"
    /\ calls = 0

RecIdle ==
    /\ api = "ok"
    /\ response = NoneResponse
    /\ rpc = "idle"
    /\ chunk_result = NoChunkResult
    /\ stats = [total_requests |-> 0, successful_requests |-> 0, failed_requests |-> 0,
                json_parsing_errors |-> 0]
    /\ extracted = NotExtracted

ConcIdle ==
    /\ report_objs = <<>>
    /\ self_report = 0
    /\ thr = <<>>

BatchIdle ==
    /\ corpus = <<>>
    /\ config = [batch_size |-> 1, max_workers |-> 1, enable_parallel |-> FALSE]
    /\ bp_items = <<>>
    /\ futures = <<>>
    /\ bp_results = <<>>
    /\ active = {}
    /\ batch_no = 0
    /\ bpc = "idle"
    /\ returned = NoReturn

TextIdle ==
    /\ text = <<>>
    /\ found = <<>>
    /\ processed = <<>>
    /\ tpc = "idle"

RetryIdle ==
    /\ max_retries = 0
    /\ retry_delay = 1
    /\ stream_mode = FALSE
    /\ attempt = 0
    /\ service_calls = <<>>
    /\ sleeps = <<>>
    /\ last_exception = "None"
    /\ api_return = "None"
    /\ qpc = "idle"

StatsIdle ==
    /\ shared_stats = [total_requests |-> 0, successful_requests |-> 0,
                       failed_requests |-> 0, json_parsing_errors |-> 0]
    /\ stats_before = shared_stats
    /\ n_items = 0
    /\ pool_size = 1
    /\ workers = <<>>
    /\ spc = "idle"

InitSched == SchedInit /\ ValIdle /\ RecIdle /\ ConcIdle /\ BatchIdle /\ TextIdle /\ RetryIdle /\ StatsIdle

InitVal == ValInit /\ SchedIdle /\ RecIdle /\ ConcIdle /\ BatchIdle /\ TextIdle /\ RetryIdle /\ StatsIdle

InitRec == RecInit /\ SchedIdle /\ ValIdle /\ ConcIdle /\ BatchIdle /\ TextIdle /\ RetryIdle /\ StatsIdle

InitConc == ConcInit /\ SchedIdle /\ ValIdle /\ RecIdle /\ BatchIdle /\ TextIdle /\ RetryIdle /\ StatsIdle

InitBatch == BatchInit /\ SchedIdle /\ ValIdle /\ RecIdle /\ ConcIdle /\ TextIdle /\ RetryIdle /\ StatsIdle

SpecSched == InitSched /\ [][SchedNext]_vars

SpecVal == InitVal /\ [][ValNext]_vars

SpecRec == InitRec /\ [][RecNext]_vars

SpecConc == InitConc /\ [][ConcNext]_vars

SpecBatch == InitBatch /\ [][BatchNext]_vars

InitText == TextInit /\ SchedIdle /\ ValIdle /\ RecIdle /\ ConcIdle /\ BatchIdle /\ RetryIdle /\ StatsIdle

SpecText == InitText /\ [][TextNext]_vars

InitRetry == RetryInit /\ SchedIdle /\ ValIdle /\ RecIdle /\ ConcIdle /\ BatchIdle /\ TextIdle /\ StatsIdle

SpecRetry == InitRetry /\ [][RetryNext]_vars

InitStats == StatsInit /\ SchedIdle /\ ValIdle /\ RecIdle /\ ConcIdle /\ BatchIdle /\ TextIdle /\ RetryIdle

SpecStats == InitStats /\ [][StatsNext]_vars

InitScenario == ScenarioInit /\ ValIdle /\ RecIdle /\ ConcIdle /\ BatchIdle /\ TextIdle /\ RetryIdle /\ StatsIdle

SpecScenario == InitScenario /\ [][ScenarioNext]_vars

(***************************************************************************)
(* Properties of the streaming scheduler.                                  *)
(***************************************************************************)
\* C1: when the scheduler loop terminates (no exception was caught), every
\* input document has been yielded at least once.
C1_EveryDocumentYielded ==
    (pc = "done" /\ ~failed) => \A d \in DOMAIN doc_paths : yield_count[d] >= 1

\* The list of a yielded pair is the document's chunk results in chunk order.
IsResultOfChunk(r, doc, chunk_index) ==
    /\ "chunk_index" \in DOMAIN r
    /\ r.chunk_index = chunk_index
    /\ r.doc_name = doc

OrderedComplete(y) ==
    /\ Len(y.results) = doc_paths[y.doc_path].chunks
    /\ \A i \in DOMAIN y.results : IsResultOfChunk(y.results[i], y.doc_path, i - 1)

C8_FailureIsolation ==
    /\ Len(last_batch.results) = Len(last_batch.items)
    /\ \A i \in DOMAIN last_batch.items :
          LET r == last_batch.results[i]
              item == last_batch.items[i]
          IN /\ r.doc_name = item.doc_path
             /\ r.chunk_index = item.chunk_index
             /\ last_batch.outcomes[i] = "raise" => (r.data = "None" /\ ~r.success)
             /\ last_batch.outcomes[i] = "ok" => (r.data = "payload" /\ r.success)
    /\ (last_yield.via = "normal" /\ last_yield.batch = batches) =>
          /\ Len(last_yield.results) = doc_paths[last_yield.doc_path].chunks
          /\ \A i \in DOMAIN last_batch.items :
                last_batch.items[i].doc_path = last_yield.doc_path =>
                    last_yield.results[last_batch.items[i].chunk_index + 1]
                        = last_batch.results[i]

\* A 3-chunk document whose chunk 2 raised is yielded with three results:
\* success at indices 0 and 1, the failure at index 2.
C8_Witness ==
    /\ last_yield.via = "normal"
    /\ doc_paths[last_yield.doc_path].chunks = 3
    /\ Len(last_yield.results) = 3
    /\ last_yield.results[1].success
    /\ last_yield.results[2].success
    /\ ~last_yield.results[3].success
    /\ last_yield.results[3].chunk_index = 2
    /\ \E i \in DOMAIN last_batch.items :
          /\ last_batch.items[i] = [doc_path |-> last_yield.doc_path, chunk_index |-> 2]
          /\ last_batch.outcomes[i] = "raise"

\* C9: after an exception inside the scheduler loop the generator does not
\* raise to the consumer, and when it finishes every input document has been
\* yielded.
C9_HandlerYieldsAllOutstanding ==
    /\ pc # "raised"
    /\ (pc = "done" /\ failed) => \A d \in DOMAIN doc_paths : yield_count[d] >= 1

\* C10: a document yielded by the completion check is yielded in the loop
\* iteration (the batch) in which the result of its last chunk was recorded.
C10_YieldedWithLastChunk ==
    last_yield.via = "normal" => last_yield.batch = recorded_batch[last_yield.doc_path]

\* C16: a document whose chunking raised has no item in the chunk buffer and
\* no entry in pending_docs, and the step of the refill loop that takes its
\* marker from chunk_generator yields it with the single result (None, info),
\* info.success = False, before any further batch is dispatched.
C16_ChunkingFailureYieldedInRefill ==
    [][\A d \in DOMAIN doc_paths :
          ~doc_paths[d].chunking_ok =>
             /\ d \notin PendingKeys'
             /\ \A i \in DOMAIN chunk_buffer' : chunk_buffer'[i].doc_path # d
             /\ (chunk_gen.d = d /\ chunk_gen'.d # d) =>
                   /\ pc = "refill"
                   /\ batches' = batches
                   /\ yield_count'[d] = 1
                   /\ last_yield'.doc_path = d
                   /\ Len(last_yield'.results) = 1
                   /\ last_yield'.results[1].data = "None"
                   /\ ~last_yield'.results[1].success]_vars

\* The chunk_info items of chunks first..last of a document.
ChunksOf(doc, first, last) ==
    [i \in 1..(last - first + 1) |-> [doc_path |-> doc, chunk_index |-> first + i - 1]]

\* C18: with documents of 1, 1, 1, 1 and 10 chunks, max_workers = 4 and the
\* default batch size, the first batch holds the four single chunks and the
\* first four chunks of the fifth document, and the four 1-chunk documents
\* have all been yielded, each once and after that batch, whenever a chunk of
\* the fifth document is read again, a second batch has been dispatched or the
\* fifth document has been yielded.
C18_ShortDocumentsFirst ==
    /\ batches = 1 =>
          last_batch.items = ChunksOf(1, 0, 0) \o ChunksOf(2, 0, 0) \o ChunksOf(3, 0, 0)
                             \o ChunksOf(4, 0, 0) \o ChunksOf(5, 0, 3)
    /\ (batches >= 2 \/ yield_count[5] >= 1 \/ (batches = 1 /\ pc = "refill")) =>
          \A d \in 1..4 : yield_count[d] = 1 /\ yield_batch[d] = 1
    /\ yield_count[5] >= 1 => (yield_batch[5] = 2 /\ batches = 2)

\* The run has ended: the 1-chunk documents were yielded after batch 1, the
\* 10-chunk document after batch 2.
C18_Witness ==
    /\ pc = "done"
    /\ batches = 2
    /\ \A d \in 1..4 : yield_count[d] = 1 /\ yield_batch[d] = 1
    /\ yield_count[5] = 1
    /\ yield_batch[5] = 2
    /\ Len(last_batch.items) = 6

(***************************************************************************)
(* Properties of batch_process and its threads.                            *)
(***************************************************************************)
\* C17: only calls of the latest batch execute (a batch is dispatched when no
\* call of an earlier one runs), a dispatched batch has at most batch_size
\* items, and at most max_workers process_chunk calls execute at a time.
C17_Backpressure ==
    /\ \A call \in active : call[1] = batch_no
    /\ bpc = "refill" => active = {}
    /\ Len(bp_items) <= config.batch_size
    /\ Cardinality(active) <= config.max_workers

\* A full batch of three items on two workers: two calls execute, the third
\* task waits, and the corpus holds a further chunk.
C17_Witness ==
    /\ bpc = "parallel"
    /\ Len(bp_items) = 3
    /\ config.batch_size = 3
    /\ config.max_workers = 2
    /\ Cardinality(active) = 2
    /\ futures[3].state = "pending"
    /\ corpus # <<>>

\* C20: the list batch_process returned has one element per submitted item,
\* the element at position i being the result of item i (its info carries
\* the item's doc_name and chunk_index), whatever the completion order.
C20_ResultsInSubmittedOrder ==
    /\ Len(returned.results) = Len(returned.items)
    /\ \A i \in DOMAIN returned.items :
          /\ returned.results[i].doc_name = returned.items[i].doc_path
          /\ returned.results[i].chunk_index = returned.items[i].chunk_index
          /\ returned.results[i].global_index = i - 1

\* A returned batch of chunks of two documents whose second item completed
\* before its first.
C20_Witness ==
    /\ bpc = "refill"
    /\ Len(returned.items) = 3
    /\ returned.items[1].doc_path # returned.items[3].doc_path
    /\ returned.order = <<1, 2, 0>>
    /\ returned.results[1].success
    /\ ~returned.results[2].success

(***************************************************************************)
(* Properties of the validator.                                            *)
(***************************************************************************)
\* C3: validate_data applied to the payload it returned records no entry in
\* warnings_modified and none in errors_deleted, and returns the same records.
C3_Idempotent ==
    calls = 2 =>
        /\ vpc = "returned"
        /\ validation_report.warnings_modified = <<>>
        /\ validation_report.errors_deleted = <<>>
        /\ validated_data = data_before

IsCanonicalJoint(state) ==
    /\ state.entity_ids = Sorted(state.entity_ids)
    /\ TimeMatches(state.time)
    /\ state.state_id = <<"JS">> \o Join(state.entity_ids) \o DatePart(state.time)

\* C4: every Joint state in the returned payload has its entity ids in sorted
\* order and the id "JS-" + the ids joined by "-" + "-" + the dates of its
\* time range, whether it entered as Joint or as Independent.
C4_JointSortedCanonical ==
    vpc = "returned" =>
        \A i \in DOMAIN validated_data.state_entities :
            validated_data.state_entities[i].type = "Joint"
                => IsCanonicalJoint(validated_data.state_entities[i])

OutputStateIds ==
    {validated_data.state_entities[i].state_id : i \in DOMAIN validated_data.state_entities}

\* C5: in the returned payload the subject id and the object id of every
\* relation are state ids of states of the returned payload.
C5_RelationsResolve ==
    vpc = "returned" =>
        \A i \in DOMAIN validated_data.state_relations :
            /\ validated_data.state_relations[i].subject_id \in OutputStateIds
            /\ validated_data.state_relations[i].object_id \in OutputStateIds

\* A relation is returned whose subject id is one that Stage B wrote: no
\* relation of the payload carried it when the call was made.
C5_Witness ==
    /\ vpc = "returned"
    /\ calls = 1
    /\ \E i \in DOMAIN validated_data.state_relations :
          /\ validated_data.state_relations[i].subject_id
                \notin {data_before.state_relations[j].subject_id :
                           j \in DOMAIN data_before.state_relations}
          /\ validated_data.state_relations[i].subject_id \in OutputStateIds

\* C6: validate_data returns for every payload of three lists of records;
\* no exception leaves it.
C6_NeverRaises == vpc # "raised"

\* C11: in the returned payload a state is Independent exactly if its entity
\* id list, which holds no id twice, has one id, and Joint exactly if it has
\* two or more.
C11_KindMatchesCardinality ==
    vpc = "returned" =>
        \A i \in DOMAIN validated_data.state_entities :
            LET state == validated_data.state_entities[i]
            IN /\ Len(state.entity_ids) = Cardinality(Range(state.entity_ids))
               /\ state.type = "Independent" <=> Len(state.entity_ids) = 1
               /\ state.type = "Joint" <=> Len(state.entity_ids) >= 2

\* A Joint state that names one entity twice was returned as Independent with
\* the one id, and an Independent state with two ids as Joint.
C11_Witness ==
    /\ vpc = "returned"
    /\ calls = 1
    /\ Len(data_before.state_entities) = 2
    /\ Len(validated_data.state_entities) = 2
    /\ data_before.state_entities[1].type = "Joint"
    /\ Len(data_before.state_entities[1].entity_ids) = 2
    /\ validated_data.state_entities[1].type = "Independent"
    /\ Len(validated_data.state_entities[1].entity_ids) = 1
    /\ data_before.state_entities[2].type = "Independent"
    /\ validated_data.state_entities[2].type = "Joint"
    /\ Len(validated_data.state_entities[2].entity_ids) = 2

SurvivingEntityIds ==
    {validated_data.base_entities[i].id : i \in DOMAIN validated_data.base_entities}

\* The relation's required fields are present.
HasRequiredFields(relation) ==
    relation.subject_id # None /\ relation.relation # "" /\ relation.object_id # None

\* C12: a state that enters Stage B as Independent with two or more distinct
\* entity ids, all surviving Stage A, is returned as Joint with the id "JS-" +
\* the sorted ids joined by "-" + the dates of its time range; every relation
\* endpoint that held its old id holds the new id when Stage C runs, and such
\* a relation is returned if its other endpoint resolves.
C12_IndependentBecomesJoint ==
    vpc = "returned" =>
        \A i \in DOMAIN data_before.state_entities :
            LET old == data_before.state_entities[i]
                new == data.state_entities[i]
            IN (/\ old.type = "Independent"
                /\ old.state_id # None
                /\ Cardinality(Range(old.entity_ids)) >= 2
                /\ Range(old.entity_ids) \subseteq SurvivingEntityIds)
               => /\ new.type = "Joint"
                  /\ TimeMatches(new.time)
                  /\ new.state_id = <<"JS">> \o Join(Sorted(new.entity_ids))
                                        \o DatePart(new.time)
                  /\ new \in Range(validated_data.state_entities)
                  /\ \A j \in DOMAIN data_before.state_relations :
                        LET was == data_before.state_relations[j]
                            now == data.state_relations[j]
                        IN /\ was.subject_id = old.state_id
                                => now.subject_id = new.state_id
                           /\ was.object_id = old.state_id
                                => now.object_id = new.state_id
                           /\ (/\ HasRequiredFields(was)
                               /\ old.state_id \in {was.subject_id, was.object_id}
                               /\ now.subject_id \in OutputStateIds
                               /\ now.object_id \in OutputStateIds)
                                => now \in Range(validated_data.state_relations)

\* A base entity with a kind and an id that matches the pattern of its kind.
WellFormedBase(entity) ==
    /\ entity.id # None
    /\ \/ entity.type = "Event" /\ MatchesEvent(entity.id)
       \/ entity.type = "Location" /\ MatchesLocation(entity.id)
       \/ entity.type = "Facility" /\ MatchesFacility(entity.id)

\* The positions of the well-formed records of a list whose id no earlier
\* well-formed record has, and those of the well-formed records that repeat one.
FirstOccurrences(entities) ==
    {i \in DOMAIN entities :
        /\ WellFormedBase(entities[i])
        /\ \A j \in 1..(i - 1) :
              ~(WellFormedBase(entities[j]) /\ entities[j].id = entities[i].id)}

Duplicates(entities) ==
    {i \in DOMAIN entities : WellFormedBase(entities[i])} \ FirstOccurrences(entities)

\* The records of a list at a set of positions, in the order of the list.
RECURSIVE Pick(_, _, _)
Pick(entities, positions, i) ==
    IF i > Len(entities) THEN <<>>
    ELSE IF i \in positions THEN <<entities[i]>> \o Pick(entities, positions, i + 1)
    ELSE Pick(entities, positions, i + 1)

\* C15: the returned base-entity list has no two records with one id; it is
\* the list of the first well-formed input record of each id, unmodified and
\* in input order, and each later well-formed record of an id is dropped with
\* one duplicate-id warning.
C15_FirstOccurrenceKept ==
    vpc = "returned"
        => LET entities == data_before.base_entities
               kept == validated_data.base_entities
               warned == validation_report.warnings_unmodified
           IN /\ \A i, j \in DOMAIN kept : kept[i].id = kept[j].id => i = j
              /\ kept = Pick(entities, FirstOccurrences(entities), 1)
              /\ \A id \in {entities[i].id : i \in DOMAIN entities} :
                    Cardinality({w \in DOMAIN warned :
                                    warned[w] = [msg |-> "duplicate entity id", arg |-> id]})
                       = Cardinality({i \in Duplicates(entities) : entities[i].id = id})

\* The first call was given an id first under a kind whose pattern it fails,
\* then twice under its own kind: the second record alone is returned and
\* the third is reported as a duplicate.
C15_Witness ==
    /\ vpc = "returned"
    /\ calls = 1
    /\ data_before.base_entities =
          <<BaseEntity("Event", L1, ""), BaseEntity("Location", L1, "north"),
            BaseEntity("Location", L1, "")>>
    /\ validated_data.base_entities = <<BaseEntity("Location", L1, "north")>>
    /\ \E w \in DOMAIN validation_report.warnings_unmodified :
          validation_report.warnings_unmodified[w]
             = [msg |-> "duplicate entity id", arg |-> L1]

\* Number of input records of a kind that are absent from the output: the
\* stages keep the records that pass in input order, so it is the difference
\* of the lengths.
Dropped(kind) ==
    Len(data_before[kind]) - Len(validated_data[kind])

\* C14: after validate_data, for each kind error_counts[kind] is the number
\* of input records of the kind that were dropped, and error_rates[kind] is
\* that number over the number of input records, 0 when there are none.
C14_CountsAreDroppedRecords ==
    vpc = "returned"
        => \A kind \in {"base_entities", "state_entities", "state_relations"} :
              /\ validation_report.error_counts[kind] = Dropped(kind)
              /\ validation_report.error_rates[kind]
                    = Rate(Dropped(kind), Len(data_before[kind]))

\* The three lists of entries of a report.
Entries(report) ==
    <<report.errors_deleted, report.warnings_modified, report.warnings_unmodified>>

\* C13: when two validate_data calls run at the same time on one validator,
\* no call raises and the report each call returns holds exactly the entries
\* its own payload causes, those of the call made alone.
C13_ReportsIsolated ==
    \A t \in Threads :
        /\ thr[t].pc # "raised"
        /\ thr[t].pc = "returned"
              => Entries(report_objs[thr[t].returned])
                    = Entries(ValidateDataCall(thr[t].payload).report)

\* C21: validate_data leaves the payload it was given as it was: after the
\* call every record of the caller's input has the values it had before.
C21_InputUntouched ==
    vpc \in {"returned", "raised"} => data = data_before

\* Stage B of the latest call, run again on the payload the call was given.
StageBOf(payload) ==
    Only({ValidateStateEntities(payload.state_entities, a.valid_entities,
                                payload.state_relations, a.report)
            : a \in {ValidateBaseEntities(payload.base_entities, EmptyReport)}})

\* The positions of the input states Stage B drops at its entity check: the
\* record has its fields and an allowed kind, and one of its entity ids is
\* not the id of a base entity that survived Stage A.
DroppedForEntity(payload) ==
    LET surviving ==
            {e.id : e \in Range(ValidateBaseEntities(payload.base_entities,
                                                     EmptyReport).valid_entities)}
    IN {i \in DOMAIN payload.state_entities :
           LET state == payload.state_entities[i]
           IN /\ state.state_id # None /\ state.entity_ids # <<>> /\ state.time # None
              /\ state.type \in {"Independent", "Joint"}
              /\ \E e \in Range(state.entity_ids) : e \notin surviving}

\* C22: a state entity dropped because one of its entity ids is unknown
\* leaves no entry in the old-to-new id map: its stored id is a key of the
\* map only if another input record carries the same stored id.
C22_NoMappingForDropped ==
    vpc = "returned" =>
        \A i \in DroppedForEntity(data_before) :
            LET old == data_before.state_entities[i].state_id
            IN old \in DOMAIN StageBOf(data_before).id_mapping
                  => \E j \in DOMAIN data_before.state_entities :
                        j # i /\ data_before.state_entities[j].state_id = old

\* The record reaches the time check of Stage B.
ReachesTimeCheck(state) ==
    /\ state.state_id # None /\ state.entity_ids # <<>> /\ state.time # None
    /\ state.type \in {"Independent", "Joint"}

\* C23: a state for which Stage B recorded a time-format correction has a
\* time range of the form date-zhi-date afterwards; a time range that is not
\* of that form afterwards was left as it was and has an unmodified warning
\* and no correction.
C23_CorrectedTimeMatches ==
    (vpc = "returned" /\ calls = 1) =>
        \A i \in DOMAIN data_before.state_entities :
            LET old == data_before.state_entities[i]
                new == data.state_entities[i]
                corrected ==
                    [msg |-> "time format corrected", arg |-> old.time]
                       \in Range(validation_report.warnings_modified)
                warned ==
                    [msg |-> "time format", arg |-> old.time]
                       \in Range(validation_report.warnings_unmodified)
            IN (ReachesTimeCheck(old) /\ ~TimeMatches(old.time)) =>
                  /\ corrected => TimeMatches(new.time)
                  /\ ~TimeMatches(new.time) => (new.time = old.time /\ warned /\ ~corrected)

(***************************************************************************)
(* Properties of the response recovery.                                    *)
(***************************************************************************)
\* C7: _extract_json returns a payload or None for every response text and
\* never raises; when it returns None, process_chunk returns (None, info)
\* with success False, error_type "json_parse_error" and a raw_response of
\* at most 1000 characters of the response.
C7_RecoveryTotal ==
    (rpc # "ready" /\ api = "ok") =>
        /\ ~extracted.raised
        /\ extracted.value = "None" =>
              /\ rpc = "returned"
              /\ chunk_result.json_data = "None"
              /\ chunk_result.info.success = FALSE
              /\ chunk_result.info.error_type = "json_parse_error"
              /\ chunk_result.info.raw_response.length <= PreviewLimit
              /\ chunk_result.info.raw_response.length <= response.length

\* The outcomes of an attempt that failed.
FailedOutcomes == {"decode_error", "other_error", "error"}

\* C19: on a response that is not empty _extract_json makes its attempts in
\* the order direct parse, fenced blocks, candidates, repair pass; it returns
\* the payload of the first attempt that parses and makes no attempt after
\* it; it returns None only when every attempt of every strategy was made
\* and failed.
C19_FirstSuccessWins ==
    (rpc # "ready" /\ api = "ok" /\ ~Falsy(response)) =>
        LET made == extracted.attempts
            all == LadderAttempts(response)
        IN /\ ~extracted.raised
           /\ Len(made) <= Len(all)
           /\ made = SubSeq(all, 1, Len(made))
           /\ \A i, j \in DOMAIN made : i < j => made[i].strategy <= made[j].strategy
           /\ \A i \in 1..(Len(made) - 1) : made[i].outcome \in FailedOutcomes
           /\ extracted.value = "payload" => made[Len(made)].outcome = "payload"
           /\ extracted.value = "None" =>
                 /\ made = all
                 /\ \A i \in DOMAIN made : made[i].outcome \in FailedOutcomes

(***************************************************************************)
(* Properties of the text functions.                                       *)
(***************************************************************************)
\* The maximal balanced spans of a text for one pair of delimiters: from an
\* opening delimiter met at depth zero to the closing delimiter that brings
\* the depth back to zero; a closing delimiter met at depth zero is unmatched
\* and leaves the depth at zero.
RECURSIVE BalancedSpans(_, _, _, _, _, _)
BalancedSpans(s, i, depth, start, opening, closing) ==
    IF i > Len(s) THEN {}
    ELSE IF s[i] = opening
    THEN BalancedSpans(s, i + 1, depth + 1, IF depth = 0 THEN i ELSE start, opening, closing)
    ELSE IF s[i] = closing /\ depth = 1
    THEN {SubSeq(s, start, i)} \cup BalancedSpans(s, i + 1, 0, 0, opening, closing)
    ELSE IF s[i] = closing /\ depth > 1
    THEN BalancedSpans(s, i + 1, depth - 1, start, opening, closing)
    ELSE BalancedSpans(s, i + 1, depth, start, opening, closing)

\* C24: every maximal balanced span of the text, for braces and for
\* brackets, is among the candidates _find_json_candidates returns, whatever
\* its length and whatever unmatched closing delimiter comes before it.
C24_EveryBalancedSpanFound ==
    tpc = "scanned" =>
        \A span \in BalancedSpans(text, 1, 0, 0, "{", "}")
                    \cup BalancedSpans(text, 1, 0, 0, "[", "]") :
            span \in Range(found)

\* C25: for a text that, stripped and cut to start at its first delimiter,
\* starts with "{" or "[" and does not end with "}" or "]", the result of
\* _preprocess_for_repair has as many closing as opening delimiters and is
\* the text without a dangling trailing comma followed by closing delimiters
\* only.
C25_DelimitersBalanced ==
    tpc = "preprocessed" =>
        LET content == FromFirstDelimiter(RStrip(LStrip(text, " "), " "))
            trimmed == RStrip(RStrip(content, " "), ",")
        IN ((StartsWithChar(content, "{") \/ StartsWithChar(content, "["))
              /\ ~EndsWithChar(content, "}") /\ ~EndsWithChar(content, "]")) =>
                 /\ Count(processed, "}") + Count(processed, "]")
                       = Count(processed, "{") + Count(processed, "[")
                 /\ Len(processed) >= Len(trimmed)
                 /\ SubSeq(processed, 1, Len(trimmed)) = trimmed
                 /\ \A i \in (Len(trimmed) + 1)..Len(processed) : processed[i] \in {"}", "]"}

\* C27: in a run of process_documents_streaming_optimized no document is
\* yielded more than once, also when the callback raises or the top-level
\* handler runs after documents of the current round were yielded but are
\* still in pending_docs.
C27_NoDocumentYieldedTwice ==
    \A d \in DOMAIN yield_count : yield_count[d] <= 1

\* a rate num/den lies between 0 and 1
IsFraction(rate) == 0 <= rate[1] /\ rate[1] <= rate[2]

\* C28: after validate_data, error_counts of each kind is at most the number
\* of input records of the kind, error_counts.total is at most the number of
\* all input records, and every error rate, hence the summary success_rate
\* 1 - error_rates.total, lies between 0 and 1.
C28_ErrorCountsBounded ==
    vpc = "returned"
        => /\ \A kind \in {"base_entities", "state_entities", "state_relations"} :
                 /\ validation_report.error_counts[kind] <= Len(data_before[kind])
                 /\ IsFraction(validation_report.error_rates[kind])
           /\ validation_report.error_counts.total
                 <= Len(data_before.base_entities) + Len(data_before.state_entities)
                      + Len(data_before.state_relations)
           /\ IsFraction(validation_report.error_rates.total)

\* C30: the rename pass changes a relation endpoint only when the state
\* entity it references was renamed: an endpoint whose value is the stored
\* id of a surviving state that Stage B left with that id keeps its value,
\* also when another record with the same stored id was renamed; a changed
\* endpoint carries the new id of a record that had the old one; and the map
\* is applied once, not transitively.
C30_RenameOnlyRenamed ==
    vpc = "returned" =>
        \E b \in {StageBOf(data_before)} :
            \A r \in DOMAIN data_before.state_relations :
                \A field \in {"subject_id", "object_id"} :
                    LET old == data_before.state_relations[r][field]
                        new == b.valid_relations[r][field]
                        inputs == data_before.state_entities
                    IN /\ (\E j \in DOMAIN inputs :
                              /\ inputs[j].state_id = old
                              /\ b.states[j].state_id = old
                              /\ b.states[j] \in Range(b.valid_states))
                          => new = old
                       /\ new # old
                          => \E j \in DOMAIN inputs :
                                inputs[j].state_id = old /\ b.states[j].state_id = new
                       /\ new = (IF old \in DOMAIN b.id_mapping
                                 THEN b.id_mapping[old] ELSE old)

(***************************************************************************)
(* Properties of the retry loop.                                           *)
(***************************************************************************)
FailedCalls == Cardinality({k \in DOMAIN service_calls : service_calls[k] = "fail"})

\* C26: a call of _call_llm_api invokes the service at most max_retries
\* times; a successful invocation is the last one and makes the call return;
\* the k-th failed invocation (k from 0) is followed by a sleep of
\* retry_delay * 2^k unless it was invocation number max_retries; and the call
\* raises only when max_retries invocations were made and all of them failed.
C26_RetryPolicy ==
    /\ Len(service_calls) <= max_retries
    /\ \A k \in DOMAIN service_calls :
           service_calls[k] = "ok" => (k = Len(service_calls) /\ qpc = "returned")
    /\ qpc = "returned" =>
           (service_calls # <<>> /\ service_calls[Len(service_calls)] = "ok")
    /\ Len(sleeps) = (IF FailedCalls = max_retries /\ FailedCalls > 0
                      THEN FailedCalls - 1 ELSE FailedCalls)
    /\ \A k \in DOMAIN sleeps : sleeps[k] = retry_delay * 2^(k - 1)
    /\ qpc = "raised" =>
           (Len(service_calls) = max_retries /\ FailedCalls = max_retries)

\* the default policy of three attempts: two failures, two sleeps, then success
C26_Witness ==
    /\ qpc = "returned"
    /\ max_retries = 3
    /\ service_calls = <<"fail", "fail", "ok">>
    /\ sleeps = <<retry_delay, 2 * retry_delay>>

(***************************************************************************)
(* Properties of the shared counters.                                      *)
(***************************************************************************)
\* C29: when a parallel batch_process of n chunk items has returned,
\* total_requests has grown by exactly n and successful_requests plus
\* failed_requests has grown by exactly n, whatever the order in which the
\* worker threads read and wrote the counters.
C29_CountersExact ==
    spc = "returned" =>
        /\ shared_stats.total_requests = stats_before.total_requests + n_items
        /\ shared_stats.successful_requests + shared_stats.failed_requests
              = stats_before.successful_requests + stats_before.failed_requests + n_items

====
